---- MODULE Spec2Model ----
(***************************************************************************)
(* Fish-feeder backend: the feed-priority decision engine, the reservation *)
(* queue, the cooldown calculator and the feed dispatcher, as the route    *)
(* handlers of the repository implement them against the Firebase node     *)
(* system/feeder.                                                          *)
(*                                                                         *)
(* Time.  The code works in epoch milliseconds.  TLC integers are 32 bits, *)
(* so every instant and duration of the model is in SECONDS (the code's    *)
(* value divided by 1000): 946684800000 ms becomes 946684800, one minute   *)
(* 60, one hour 3600.  Date.now() is the variable clock; every Date.now()  *)
(* of one synchronous stretch of a handler reads the same clock value, and *)
(* the clock may advance at every await.                                   *)
(*                                                                         *)
(* JavaScript undefined / null of a numeric field is the value Null (-1).  *)
(***************************************************************************)
EXTENDS Integers, Sequences, FiniteSets, TLC

VARIABLES
    clock,      \* Date.now(), seconds
    feeder,     \* the store node system/feeder
    device,     \* the store node system/device
    proc,       \* the invocations in flight: one record per request slot
    tasks,      \* detached work (setTimeout callbacks) not yet run
    nreq,       \* number of requests the environment has issued
    feedLog,    \* history variable: the instants of the last two actuation requests
    cf,         \* harness of the pure-function specification SpecCanFeed
    firebase    \* the process: its environment, dbInstance, initAttempted, admin.apps

vars == <<clock, feeder, device, proc, tasks, nreq, feedLog, cf, firebase>>

(***************************************************************************)
(* Bounds of the model                                                     *)
(***************************************************************************)
T0 == 1762387140        \* the clock of the initial state (Wed 2025-11-05 23:59:00 UTC)
TickStep == 30          \* seconds by which one step of the clock advances
MaxTicks == 4           \* the clock advances at most this many times
MaxRequests == 3        \* requests issued in one behaviour

Null == 0 - 1
Procs == {"p1", "p2"}   \* request slots: at most two invocations overlap
MaxClock == T0 + MaxTicks * TickStep

(***************************************************************************)
(* lib/utils/feeder.js                                                     *)
(***************************************************************************)
MIN_VALID_EPOCH == 946684800

\* JavaScript !x for a numeric field: undefined, null and 0 are falsy
Falsy(x) == x = Null \/ x = 0

\* x || 0
OrZero(x) == IF Falsy(x) THEN 0 ELSE x

\* new Date().getDay() at the instant now (UTC; 1970-01-01 was a Thursday = 4)
getDay(now) == ((now \div 86400) + 4) % 7

\* mutant: no day is the fasting day
isFastingDay_Never(noFeedDay, now) == FALSE

isFastingDay(noFeedDay, now) ==
    IF noFeedDay = Null \/ noFeedDay < 0 \/ noFeedDay > 6
    THEN FALSE
    ELSE getDay(now) = noFeedDay

calculateCooldownMs(timerHour, timerMinute) ==
    (timerHour * 3600) + (timerMinute * 60)

isValidLastFeedTime(lastFeedTime) ==
    IF Falsy(lastFeedTime) THEN TRUE
    ELSE lastFeedTime >= MIN_VALID_EPOCH

\* mutant: the epoch-floor validation is skipped
canFeed_NoValidation(lastFeedTime, cooldownMs, now) ==
    IF Falsy(lastFeedTime) THEN TRUE
    ELSE now >= lastFeedTime + cooldownMs

\* mutant: the cooldown end itself is still rejected (> for >=)
canFeed_Strict(lastFeedTime, cooldownMs, now) ==
    IF Falsy(lastFeedTime) THEN TRUE
    ELSE IF ~isValidLastFeedTime(lastFeedTime) THEN TRUE
    ELSE now > lastFeedTime + cooldownMs

\* mutant: the cooldown is not checked
canFeed_NoCooldown(lastFeedTime, cooldownMs, now) == TRUE

canFeed(lastFeedTime, cooldownMs, now) ==
    IF Falsy(lastFeedTime) THEN TRUE
    ELSE IF ~isValidLastFeedTime(lastFeedTime) THEN TRUE
    ELSE now >= lastFeedTime + cooldownMs

Max(a, b) == IF a >= b THEN a ELSE b

calculateScheduledTime(reservations, lastFeedTime, cooldownMs, now) ==
    IF Len(reservations) > 0
    THEN reservations[Len(reservations)].scheduledTime + cooldownMs
    ELSE Max(now, lastFeedTime + cooldownMs)


\* isDeviceOnline(lastSeen, deviceData = {}): lastSeen within 2 minutes
isDeviceOnline(lastSeen, deviceData, now) ==
    IF Falsy(lastSeen)
    THEN OrZero(deviceData.uptime) > 0 /\ deviceData.wifi = "connected"
    ELSE now - lastSeen < 2 * 60

(***************************************************************************)
(* The store.  A reservation is {user, userEmail, deviceId, scheduledTime, *)
(* createdAt}; a null userEmail / deviceId is the empty string.            *)
(***************************************************************************)
NoResv == [user |-> "", userEmail |-> "", deviceId |-> "",
           scheduledTime |-> Null, createdAt |-> Null]

\* deviceData = {} : the default when system/device has not been read
EmptyDevice == [lastSeen |-> Null, uptime |-> Null, wifi |-> ""]

\* reservations.filter((r) => r && r.scheduledTime)
validReservations(reservations) ==
    SelectSeq(reservations, LAMBDA r : ~Falsy(r.scheduledTime))

\* position of r in a sequence already sorted by createdAt: behind every entry
\* whose createdAt is not greater (Array.prototype.sort is stable)
RECURSIVE InsertByCreatedAt(_, _)
InsertByCreatedAt(r, sorted) ==
    IF sorted = <<>> THEN <<r>>
    ELSE IF OrZero(sorted[Len(sorted)].createdAt) - OrZero(r.createdAt) <= 0
         THEN Append(sorted, r)
         ELSE Append(InsertByCreatedAt(r, SubSeq(sorted, 1, Len(sorted) - 1)),
                     sorted[Len(sorted)])

\* .sort((a, b) => (createdAtA || 0) - (createdAtB || 0))
RECURSIVE sortByCreatedAt(_)
sortByCreatedAt(rs) ==
    IF rs = <<>> THEN <<>>
    ELSE InsertByCreatedAt(rs[Len(rs)], sortByCreatedAt(SubSeq(rs, 1, Len(rs) - 1)))

\* mutant: the ready reservations are taken in stored order, not sorted
readyReservations_Unsorted(valid, now) ==
    SelectSeq(valid, LAMBDA r : r.scheduledTime <= now)

\* validReservations.filter(scheduledTime <= Date.now()).sort(by createdAt)
readyReservations(valid, now) ==
    sortByCreatedAt(SelectSeq(valid, LAMBDA r : r.scheduledTime <= now))

\* the recalculation loop of the remaining reservations' scheduledTimes:
\*   let currentScheduledTime = anchor;
\*   for (res of updated) { scheduledTime = Math.max(Date.now(), current);
\*                          current = scheduledTime + cooldownMs }
\* mutant: the recalculated instants are not clamped to Date.now()
RECURSIVE recalculate_NoClamp(_, _, _, _)
recalculate_NoClamp(updated, current, cooldownMs, now) ==
    IF updated = <<>> THEN <<>>
    ELSE <<[updated[1] EXCEPT !.scheduledTime = current]>>
         \o recalculate_NoClamp(Tail(updated), current + cooldownMs, cooldownMs, now)

\* mutant: the recalculated entries are stamped anew, createdAt included
RECURSIVE recalculate_Restamped(_, _, _, _)
recalculate_Restamped(updated, current, cooldownMs, now) ==
    IF updated = <<>> THEN <<>>
    ELSE LET scheduledTime == Max(now, current)
         IN  <<[updated[1] EXCEPT !.scheduledTime = scheduledTime, !.createdAt = now]>>
             \o recalculate_Restamped(Tail(updated), scheduledTime + cooldownMs,
                                      cooldownMs, now)

RECURSIVE recalculate(_, _, _, _)
recalculate(updated, current, cooldownMs, now) ==
    IF updated = <<>> THEN <<>>
    ELSE LET scheduledTime == Max(now, current)
         IN  <<[updated[1] EXCEPT !.scheduledTime = scheduledTime]>>
             \o recalculate(Tail(updated), scheduledTime + cooldownMs, cooldownMs, now)

\* lastFeedTime = feederData.lastFeedTime || 0;
\* if (lastFeedTime < MIN_VALID_EPOCH && lastFeedTime > 0) lastFeedTime = Date.now()
normalizedLastFeedTime(stored, now) ==
    LET lastFeedTime == OrZero(stored)
    IN  IF lastFeedTime < MIN_VALID_EPOCH /\ lastFeedTime > 0 THEN now ELSE lastFeedTime

cooldownOf(fd) == calculateCooldownMs(OrZero(fd.timer.hour), OrZero(fd.timer.minute))

(***************************************************************************)
(* The periodic check: the synchronous guard chain that runs when the read *)
(* of system/feeder has resolved.  A decision is {type, reason, sel}: sel  *)
(* is the reservation to dispatch.                                         *)
(***************************************************************************)
Decision(type, reason, sel) == [type |-> type, reason |-> reason, sel |-> sel]

\* isDeviceOnlineFast(lastSeen, deviceData) of executeCron: 60 seconds
isDeviceOnlineFast(lastSeen, deviceData, now) ==
    IF Falsy(lastSeen)
    THEN OrZero(deviceData.uptime) > 0 /\ deviceData.wifi = "connected"
    ELSE now - lastSeen < 60

\* Steps 10-12 of executeCron: reservation first, else the unattended feed
\* (autoFeedDelayMinutes !== undefined ? autoFeedDelayMinutes : 30)
cronPriorities(fd, lastFeedTime, cooldownMs, autoFeedDelayMinutes, now) ==
    LET valid == validReservations(fd.reservations)
        ready == readyReservations(valid, now)
        cooldownEndTime == IF lastFeedTime = 0 \/ lastFeedTime < MIN_VALID_EPOCH
                           THEN now ELSE lastFeedTime + cooldownMs
        autoFeedTime == cooldownEndTime + autoFeedDelayMinutes * 60
    IN  IF Len(ready) > 0 THEN Decision("reservation", "", ready[1])
        ELSE IF Len(valid) = 0 /\ now >= autoFeedTime
             THEN Decision("timer", "", NoResv)
             ELSE Decision("none", "no_feed_needed", NoResv)

\* mutant: the status guard (Step 6) is missing
executeCronDecision_NoStatusGuard(fd, deviceData, now) ==
    IF isFastingDay(fd.timer.noFeedDay, now)
    THEN Decision("none", "fasting_day", NoResv)
    ELSE IF deviceData.lastSeen # Null
            /\ ~isDeviceOnlineFast(deviceData.lastSeen, deviceData, now)
    THEN Decision("none", "device_offline", NoResv)
    ELSE LET lastFeedTime == normalizedLastFeedTime(fd.lastFeedTime, now)
             cooldownMs == cooldownOf(fd)
         IN  IF ~canFeed(lastFeedTime, cooldownMs, now)
             THEN Decision("none", "cooldown_active", NoResv)
             ELSE cronPriorities(fd, lastFeedTime, cooldownMs,
                      IF fd.priority.autoFeedDelayMinutes # Null
                      THEN fd.priority.autoFeedDelayMinutes ELSE 30, now)

\* executeCron, Steps 4-12 (the first unnamed route of the periodic check)
executeCronDecision(fd, deviceData, now) ==
    IF isFastingDay(fd.timer.noFeedDay, now)
    THEN Decision("none", "fasting_day", NoResv)
    ELSE IF deviceData.lastSeen # Null
            /\ ~isDeviceOnlineFast(deviceData.lastSeen, deviceData, now)
    THEN Decision("none", "device_offline", NoResv)
    ELSE IF fd.status = 1
    THEN Decision("none", "already_feeding", NoResv)
    ELSE LET lastFeedTime == normalizedLastFeedTime(fd.lastFeedTime, now)
             cooldownMs == cooldownOf(fd)
         IN  IF ~canFeed(lastFeedTime, cooldownMs, now)
             THEN Decision("none", "cooldown_active", NoResv)
             ELSE cronPriorities(fd, lastFeedTime, cooldownMs,
                      IF fd.priority.autoFeedDelayMinutes # Null
                      THEN fd.priority.autoFeedDelayMinutes ELSE 30, now)

\* POST /api/cron/execute, Steps 2-10: isDeviceOnline(lastSeen) without the
\* device data, and autoFeedDelayMinutes || 30
cronExecuteDecision(fd, deviceData, now) ==
    IF isFastingDay(fd.timer.noFeedDay, now)
    THEN Decision("none", "fasting_day", NoResv)
    ELSE IF ~isDeviceOnline(deviceData.lastSeen, EmptyDevice, now)
    THEN Decision("none", "device_offline", NoResv)
    ELSE IF fd.status = 1
    THEN Decision("none", "already_feeding", NoResv)
    ELSE LET lastFeedTime == normalizedLastFeedTime(fd.lastFeedTime, now)
             cooldownMs == cooldownOf(fd)
         IN  IF ~canFeed(lastFeedTime, cooldownMs, now)
             THEN Decision("none", "cooldown_active", NoResv)
             ELSE cronPriorities(fd, lastFeedTime, cooldownMs,
                      IF Falsy(fd.priority.autoFeedDelayMinutes)
                      THEN 30 ELSE fd.priority.autoFeedDelayMinutes, now)

\* mutant: Check 5 (reservations have priority) is missing
manualDecision_NoQueueCheck(fd, deviceData, now) ==
    IF isFastingDay(fd.timer.noFeedDay, now)
    THEN Decision("none", "FASTING_DAY", NoResv)
    ELSE IF ~isDeviceOnline(deviceData.lastSeen, EmptyDevice, now)
    THEN Decision("none", "DEVICE_OFFLINE", NoResv)
    ELSE IF fd.status = 1
    THEN Decision("none", "ALREADY_FEEDING", NoResv)
    ELSE IF ~canFeed(normalizedLastFeedTime(fd.lastFeedTime, now), cooldownOf(fd), now)
    THEN Decision("none", "COOLDOWN_ACTIVE", NoResv)
    ELSE Decision("manual", "", NoResv)

\* POST /api/feed/manual, Checks 1-5
\* mutant: Check 3 (currently feeding) is missing
manualDecision_NoStatusCheck(fd, deviceData, now) ==
    IF isFastingDay(fd.timer.noFeedDay, now)
    THEN Decision("none", "FASTING_DAY", NoResv)
    ELSE IF ~isDeviceOnline(deviceData.lastSeen, EmptyDevice, now)
    THEN Decision("none", "DEVICE_OFFLINE", NoResv)
    ELSE IF ~canFeed(normalizedLastFeedTime(fd.lastFeedTime, now), cooldownOf(fd), now)
    THEN Decision("none", "COOLDOWN_ACTIVE", NoResv)
    ELSE IF Len(validReservations(fd.reservations)) > 0
    THEN Decision("none", "RESERVATIONS_EXIST", NoResv)
    ELSE Decision("manual", "", NoResv)

manualDecision(fd, deviceData, now) ==
    IF isFastingDay(fd.timer.noFeedDay, now)
    THEN Decision("none", "FASTING_DAY", NoResv)
    ELSE IF ~isDeviceOnline(deviceData.lastSeen, EmptyDevice, now)
    THEN Decision("none", "DEVICE_OFFLINE", NoResv)
    ELSE IF fd.status = 1
    THEN Decision("none", "ALREADY_FEEDING", NoResv)
    ELSE IF ~canFeed(normalizedLastFeedTime(fd.lastFeedTime, now), cooldownOf(fd), now)
    THEN Decision("none", "COOLDOWN_ACTIVE", NoResv)
    ELSE IF Len(validReservations(fd.reservations)) > 0
    THEN Decision("none", "RESERVATIONS_EXIST", NoResv)
    ELSE Decision("manual", "", NoResv)

(***************************************************************************)
(* Invocations.  Every await of a handler is a step of its own; the        *)
(* synchronous code between two awaits is one step.                        *)
(***************************************************************************)
NoSnap == [none |-> TRUE]
NoReq == [user |-> "", deviceId |-> "", userEmail |-> "",
          hour |-> Null, minute |-> Null, noFeedDay |-> Null]
NoOut == [code |-> "", resv |-> NoResv, position |-> 0]
NoDecision == Decision("", "", NoResv)

IdleProc == [pc |-> "idle", kind |-> "", now |-> Null, snap |-> NoSnap,
             req |-> NoReq, dec |-> NoDecision, out |-> NoOut, ts |-> Null,
             pending |-> <<>>, par |-> {}, wrote |-> <<>>, at |-> Null,
             readAt |-> Null]

\* a slot takes a new request when its last invocation has answered and its
\* detached work has run
Free(i) ==
    /\ proc[i].pc \in {"idle", "done"}
    /\ \A t \in tasks : t.owner # i
    /\ nreq < MaxRequests

\* the invocation answers with code
Answer(p, code) == [p EXCEPT !.pc = "done", !.out = [NoOut EXCEPT !.code = code]]

\* the invocation of kind that has read snap and decided dec at the instant now
Decided(kind, req, snap, dec, now, ts) ==
    IF dec.type = "none"
    THEN [IdleProc EXCEPT !.pc = "done", !.kind = kind, !.req = req, !.snap = snap,
                          !.dec = dec, !.now = now, !.readAt = clock,
                          !.out = [NoOut EXCEPT !.code = dec.reason]]
    ELSE \* triggerFeed is entered and awaits the write of lastFeedTime
         [IdleProc EXCEPT !.pc = "tf_lastFeedTime", !.kind = kind, !.req = req,
                          !.snap = snap, !.dec = dec, !.now = now, !.ts = ts,
                          !.readAt = clock]

(***************************************************************************)
(* Environment                                                             *)
(***************************************************************************)
Tick ==
    /\ clock < MaxClock
    /\ clock' = clock + TickStep
    /\ UNCHANGED <<feeder, device, proc, tasks, nreq, feedLog, cf, firebase>>

\* the feeder device has dispensed and clears the request flag
ActuatorDone ==
    /\ feeder.status = 1
    /\ feeder' = [feeder EXCEPT !.status = 0]
    /\ UNCHANGED <<clock, device, proc, tasks, nreq, feedLog, cf, firebase>>

\* the device reports itself (lastSeen, in seconds)
Heartbeat ==
    /\ device.lastSeen # clock
    /\ device' = [device EXCEPT !.lastSeen = clock]
    /\ UNCHANGED <<clock, feeder, proc, tasks, nreq, feedLog, cf, firebase>>

(***************************************************************************)
(* executeCron (the periodic check)                                        *)
(***************************************************************************)
\* Steps 3-10: the feeder read resolves and the guards run.  The device read
\* is started after it and is not awaited: its .then callback cannot have run
\* when Step 5 reads deviceData, which is still {}.
CronRead(i) ==
    /\ Free(i)
    /\ nreq' = nreq + 1
    /\ proc' = [proc EXCEPT ![i] =
           Decided("cron", NoReq, feeder,
                   executeCronDecision(feeder, EmptyDevice, clock), clock, clock)]
    /\ UNCHANGED <<clock, feeder, device, tasks, feedLog, cf, firebase>>

(***************************************************************************)
(* POST /api/cron/execute and POST /api/feed/manual: const now = new Date()*)
(* is taken when the request arrives, before the store is read             *)
(***************************************************************************)
ExecStart(i) ==
    /\ Free(i)
    /\ nreq' = nreq + 1
    /\ proc' = [proc EXCEPT ![i] = [IdleProc EXCEPT !.pc = "read", !.kind = "exec",
                                                    !.now = clock]]
    /\ UNCHANGED <<clock, feeder, device, tasks, feedLog, cf, firebase>>

ExecRead(i) ==
    /\ proc[i].pc = "read" /\ proc[i].kind = "exec"
    /\ proc' = [proc EXCEPT ![i] =
           Decided("exec", NoReq, feeder,
                   cronExecuteDecision(feeder, device, clock), proc[i].now, proc[i].now)]
    /\ UNCHANGED <<clock, feeder, device, tasks, nreq, feedLog, cf, firebase>>

ManualStart(i) ==
    /\ Free(i)
    /\ nreq' = nreq + 1
    /\ proc' = [proc EXCEPT ![i] = [IdleProc EXCEPT !.pc = "read", !.kind = "manual",
                                                    !.now = clock]]
    /\ UNCHANGED <<clock, feeder, device, tasks, feedLog, cf, firebase>>

ManualRead(i) ==
    /\ proc[i].pc = "read" /\ proc[i].kind = "manual"
    /\ proc' = [proc EXCEPT ![i] =
           Decided("manual", NoReq, feeder,
                   manualDecision(feeder, device, clock), proc[i].now, proc[i].now)]
    /\ UNCHANGED <<clock, feeder, device, tasks, nreq, feedLog, cf, firebase>>

(***************************************************************************)
(* triggerFeed (lib/utils/feeder.js)                                       *)
(***************************************************************************)
\* history variable: the instants of the last two actuation requests
Logged(log, ts) == IF Len(log) < 2 THEN Append(log, ts) ELSE <<log[2], ts>>

\* await feederRef.child('lastFeedTime').set(timestampMs)
SetLastFeedTime(i) ==
    /\ proc[i].pc = "tf_lastFeedTime"
    /\ feeder' = [feeder EXCEPT !.lastFeedTime = proc[i].ts]
    /\ proc' = [proc EXCEPT ![i].pc = "tf_parallel",
                            ![i].par = {"lastFeed", "status"},
                            ![i].wrote = Append(@, "lastFeedTime")]
    /\ UNCHANGED <<clock, device, tasks, nreq, feedLog, cf, firebase>>

\* Promise.all([lastFeed.set(..), status.set(1)]): the two writes land in
\* either order
SetLastFeed(i) ==
    /\ proc[i].pc = "tf_parallel" /\ "lastFeed" \in proc[i].par
    /\ feeder' = [feeder EXCEPT !.lastFeed = proc[i].ts]
    /\ proc' = [proc EXCEPT ![i].par = @ \ {"lastFeed"},
                            ![i].wrote = Append(@, "lastFeed")]
    /\ UNCHANGED <<clock, device, tasks, nreq, feedLog, cf, firebase>>

SetStatus(i) ==
    /\ proc[i].pc = "tf_parallel" /\ "status" \in proc[i].par
    /\ feeder' = [feeder EXCEPT !.status = 1]
    /\ feedLog' = Logged(feedLog, proc[i].ts)
    /\ proc' = [proc EXCEPT ![i].par = @ \ {"status"},
                            ![i].wrote = Append(@, "status")]
    /\ UNCHANGED <<clock, device, tasks, nreq, cf, firebase>>

\* setTimeout(async () => { read history; prepend; slice(0, 20); set }, 0)
HistoryTask(i) ==
    [owner |-> i, kind |-> "history", stage |-> "start",
     entry |-> [timestamp |-> proc[i].ts, type |-> proc[i].dec.type,
                user |-> IF proc[i].dec.type = "reservation" THEN proc[i].dec.sel.user
                         ELSE IF proc[i].dec.type = "manual"
                         THEN (IF proc[i].req.user = "" THEN "Visitor" ELSE proc[i].req.user)
                         ELSE "System"],
     data |-> <<>>]

\* setTimeout(() => feederRef.child('reservations').set(recalculated), 0)
ReservationsTask(i, recalculated) ==
    [owner |-> i, kind |-> "reservations", stage |-> "start",
     entry |-> [timestamp |-> Null, type |-> "", user |-> ""],
     data |-> recalculated]

\* "Remove executed reservation and recalculate": the reservation is removed
\* by its createdAt, the rest re-anchored at timestampMs + cooldownMs
afterDispatch(fd, sel, timestampMs, now) ==
    LET valid == validReservations(fd.reservations)
        updated == SelectSeq(valid, LAMBDA r : r.createdAt # sel.createdAt)
    IN  recalculate(updated, timestampMs + cooldownOf(fd), cooldownOf(fd), now)

\* mutant: after a reservation dispatch executeCron does not return (line 290)
\* and falls through to the unattended feed of Step 11
FeedReturn_FallsThrough(i) ==
    LET p == proc[i]
        recalculated == afterDispatch(p.snap, p.dec.sel, p.ts, clock)
    IN  /\ p.pc = "tf_parallel" /\ p.par = {}
        /\ tasks' = tasks \cup {HistoryTask(i)}
        /\ proc' = [proc EXCEPT ![i] =
               IF p.dec.type = "reservation"
               THEN [p EXCEPT !.pc = "tf_lastFeedTime", !.pending = recalculated,
                              !.at = clock, !.dec = Decision("timer", "", NoResv)]
               ELSE Answer(p, p.dec.type)]
        /\ UNCHANGED <<clock, feeder, device, nreq, feedLog, cf, firebase>>

\* triggerFeed returns {timestampMs, ..} and the caller goes on:
\*   executeCron       detaches the reservations write and answers
\*   /api/cron/execute awaits the reservations write
\*   /api/feed/manual  answers
FeedReturn(i) ==
    LET p == proc[i]
        recalculated == afterDispatch(p.snap, p.dec.sel, p.ts, clock)
    IN  /\ p.pc = "tf_parallel" /\ p.par = {}
        /\ tasks' = tasks \cup {HistoryTask(i)}
                          \cup (IF p.kind = "cron" /\ p.dec.type = "reservation"
                                THEN {ReservationsTask(i, recalculated)} ELSE {})
        /\ proc' = [proc EXCEPT ![i] =
               IF p.dec.type = "reservation"
               THEN IF p.kind = "cron"
                    THEN [Answer(p, "reservation") EXCEPT !.pending = recalculated,
                                                          !.at = clock]
                    ELSE [p EXCEPT !.pc = "resv_write", !.pending = recalculated,
                                   !.at = clock,
                                   !.out = [NoOut EXCEPT !.code = "reservation"]]
               ELSE Answer(p, p.dec.type)]
        /\ UNCHANGED <<clock, feeder, device, nreq, feedLog, cf, firebase>>

\* the detached history append: read, then write
HistoryRead(t) ==
    /\ t \in tasks /\ t.kind = "history" /\ t.stage = "start"
    /\ tasks' = (tasks \ {t}) \cup {[t EXCEPT !.stage = "read", !.data = feeder.history]}
    /\ UNCHANGED <<clock, feeder, device, proc, nreq, feedLog, cf, firebase>>

HistoryLimit == 20

HistoryWrite(t) ==
    /\ t \in tasks /\ t.kind = "history" /\ t.stage = "read"
    /\ feeder' = [feeder EXCEPT !.history =
                     SubSeq(<<t.entry>> \o t.data, 1,
                            IF Len(t.data) + 1 > HistoryLimit
                            THEN HistoryLimit ELSE Len(t.data) + 1)]
    /\ tasks' = tasks \ {t}
    /\ proc' = [proc EXCEPT ![t.owner].wrote = Append(@, "history")]
    /\ UNCHANGED <<clock, device, nreq, feedLog, cf, firebase>>

\* the detached reservations write of executeCron
ReservationsDetached(t) ==
    /\ t \in tasks /\ t.kind = "reservations"
    /\ feeder' = [feeder EXCEPT !.reservations = t.data]
    /\ tasks' = tasks \ {t}
    /\ proc' = [proc EXCEPT ![t.owner].wrote = Append(@, "reservations")]
    /\ UNCHANGED <<clock, device, nreq, feedLog, cf, firebase>>

\* await feederRef.child('reservations').set(..) of a handler, then its answer
ReservationsSet(i) ==
    /\ proc[i].pc = "resv_write"
    /\ feeder' = [feeder EXCEPT !.reservations = proc[i].pending]
    /\ proc' = [proc EXCEPT ![i].pc = "done", ![i].wrote = Append(@, "reservations")]
    /\ UNCHANGED <<clock, device, tasks, nreq, feedLog, cf, firebase>>

(***************************************************************************)
(* POST /api/reservations/create and DELETE /api/reservations/cancel       *)
(***************************************************************************)
MaxReservations == 20

\* (deviceId && r.deviceId === deviceId) || (userEmail && r.userEmail === userEmail)
sameIdentity(r, req) ==
    \/ (req.deviceId # "" /\ r.deviceId = req.deviceId)
    \/ (req.userEmail # "" /\ r.userEmail = req.userEmail)

\* Array.prototype.findIndex, 1-based; 0 when no entry matches
findIndex(rs, req) ==
    IF \E k \in 1..Len(rs) : sameIdentity(rs[k], req)
    THEN CHOOSE k \in 1..Len(rs) :
             sameIdentity(rs[k], req) /\ \A j \in 1..(k - 1) : ~sameIdentity(rs[j], req)
    ELSE 0

newReservation(fd, req, now) ==
    [user |-> req.user, userEmail |-> req.userEmail, deviceId |-> req.deviceId,
     scheduledTime |-> calculateScheduledTime(validReservations(fd.reservations),
                           normalizedLastFeedTime(fd.lastFeedTime, now), cooldownOf(fd), now),
     createdAt |-> now]

\* mutant: the limit lets a queue of 20 grow (> for >=)
createOutcome_LimitOffByOne(fd, req, now) ==
    LET valid == validReservations(fd.reservations)
        k == findIndex(valid, req)
        new == newReservation(fd, req, now)
    IN  IF isFastingDay(fd.timer.noFeedDay, now)
        THEN [NoOut EXCEPT !.code = "FASTING_DAY"]
        ELSE IF k > 0
        THEN [code |-> "EXISTS", resv |-> valid[k], position |-> k]
        ELSE IF Len(valid) > MaxReservations
        THEN [NoOut EXCEPT !.code = "QUEUE_FULL"]
        ELSE IF new.scheduledTime <= now
        THEN [NoOut EXCEPT !.code = "INVALID_SCHEDULE"]
        ELSE [code |-> "CREATED", resv |-> new, position |-> Len(valid) + 1]

\* mutant: the queue limit is checked before the existing reservation is looked up
createOutcome_LimitFirst(fd, req, now) ==
    LET valid == validReservations(fd.reservations)
        k == findIndex(valid, req)
        new == newReservation(fd, req, now)
    IN  IF isFastingDay(fd.timer.noFeedDay, now)
        THEN [NoOut EXCEPT !.code = "FASTING_DAY"]
        ELSE IF Len(valid) >= MaxReservations
        THEN [NoOut EXCEPT !.code = "QUEUE_FULL"]
        ELSE IF k > 0
        THEN [code |-> "EXISTS", resv |-> valid[k], position |-> k]
        ELSE IF new.scheduledTime <= now
        THEN [NoOut EXCEPT !.code = "INVALID_SCHEDULE"]
        ELSE [code |-> "CREATED", resv |-> new, position |-> Len(valid) + 1]

\* Checks 1-3 and the schedule of POST /api/reservations/create
createOutcome(fd, req, now) ==
    LET valid == validReservations(fd.reservations)
        k == findIndex(valid, req)
        new == newReservation(fd, req, now)
    IN  IF isFastingDay(fd.timer.noFeedDay, now)
        THEN [NoOut EXCEPT !.code = "FASTING_DAY"]
        ELSE IF k > 0
        THEN [code |-> "EXISTS", resv |-> valid[k], position |-> k]
        ELSE IF Len(valid) >= MaxReservations
        THEN [NoOut EXCEPT !.code = "QUEUE_FULL"]
        ELSE IF new.scheduledTime <= now
        THEN [NoOut EXCEPT !.code = "INVALID_SCHEDULE"]
        ELSE [code |-> "CREATED", resv |-> new, position |-> Len(valid) + 1]

CreateRead(i, req) ==
    LET out == createOutcome(feeder, req, clock)
        p == [IdleProc EXCEPT !.kind = "create", !.req = req, !.snap = feeder,
                              !.now = clock, !.out = out]
    IN  /\ Free(i)
        /\ nreq' = nreq + 1
        /\ proc' = [proc EXCEPT ![i] =
               IF out.code = "CREATED"
               THEN [p EXCEPT !.pc = "resv_write",
                              !.pending = Append(validReservations(feeder.reservations),
                                                 out.resv)]
               ELSE [p EXCEPT !.pc = "done"]]
        /\ UNCHANGED <<clock, feeder, device, tasks, feedLog, cf, firebase>>

\* the feeder read of the create route does not answer within 5 seconds
CreateReadTimeout(i, req) ==
    /\ Free(i)
    /\ nreq' = nreq + 1
    /\ proc' = [proc EXCEPT ![i] =
           [IdleProc EXCEPT !.pc = "done", !.kind = "create", !.req = req,
                            !.out = [NoOut EXCEPT !.code = "TIMEOUT"]]]
    /\ UNCHANGED <<clock, feeder, device, tasks, feedLog, cf, firebase>>

\* validReservations.filter((_, index) => index !== reservationIndex)
removeAt(rs, k) == SubSeq(rs, 1, k - 1) \o SubSeq(rs, k + 1, Len(rs))

\* the queue the cancel route writes: the entry removed, the rest re-anchored
\* at lastFeedTime + cooldownMs
afterCancel(fd, k, now) ==
    recalculate(removeAt(validReservations(fd.reservations), k),
                normalizedLastFeedTime(fd.lastFeedTime, now) + cooldownOf(fd),
                cooldownOf(fd), now)

\* mutant: the index -1 is not checked; the route goes on to write the queue
CancelRead_NoNotFound(i, req) ==
    LET valid == validReservations(feeder.reservations)
        k == findIndex(valid, req)
        p == [IdleProc EXCEPT !.kind = "cancel", !.req = req, !.snap = feeder,
                              !.now = clock, !.at = clock]
    IN  /\ Free(i)
        /\ nreq' = nreq + 1
        /\ proc' = [proc EXCEPT ![i] =
               [p EXCEPT !.pc = "resv_write",
                         !.pending = IF k = 0 THEN valid ELSE afterCancel(feeder, k, clock),
                         !.out = [NoOut EXCEPT !.code = "CANCELLED"]]]
        /\ UNCHANGED <<clock, feeder, device, tasks, feedLog, cf, firebase>>

CancelRead(i, req) ==
    LET k == findIndex(validReservations(feeder.reservations), req)
        p == [IdleProc EXCEPT !.kind = "cancel", !.req = req, !.snap = feeder,
                              !.now = clock, !.at = clock]
    IN  /\ Free(i)
        /\ nreq' = nreq + 1
        /\ proc' = [proc EXCEPT ![i] =
               IF k = 0
               THEN Answer(p, "RESERVATION_NOT_FOUND")
               ELSE [p EXCEPT !.pc = "resv_write",
                              !.pending = afterCancel(feeder, k, clock),
                              !.out = [NoOut EXCEPT !.code = "CANCELLED"]]]
        /\ UNCHANGED <<clock, feeder, device, tasks, feedLog, cf, firebase>>

(***************************************************************************)
(* PUT /api/settings/timer                                                 *)
(***************************************************************************)
\* hour 0..23, minute 0..59, noFeedDay undefined, null or 0..6
timerAccepts(hour, minute, noFeedDay) ==
    /\ hour >= 0 /\ hour <= 23
    /\ minute >= 0 /\ minute <= 59
    /\ (noFeedDay = Null \/ (noFeedDay >= 0 /\ noFeedDay <= 6))

\* const feederSnapshot = await feederRef.once('value')
TimerRead(i, req) ==
    /\ Free(i)
    /\ timerAccepts(req.hour, req.minute, req.noFeedDay)
    /\ nreq' = nreq + 1
    /\ proc' = [proc EXCEPT ![i] =
           [IdleProc EXCEPT !.pc = "timer_write", !.kind = "timer", !.req = req,
                            !.snap = feeder, !.now = clock]]
    /\ UNCHANGED <<clock, feeder, device, tasks, feedLog, cf, firebase>>

\* await feederRef.child('timer').set(timerUpdate), then the recalculation of
\* the snapshot's reservations from lastFeedTime + newCooldownMs
TimerWrite(i) ==
    LET p == proc[i]
        valid == validReservations(p.snap.reservations)
        newCooldownMs == calculateCooldownMs(p.req.hour, p.req.minute)
        recalculated == recalculate(valid, OrZero(p.snap.lastFeedTime) + newCooldownMs,
                                    newCooldownMs, clock)
    IN  /\ p.pc = "timer_write"
        /\ feeder' = [feeder EXCEPT !.timer = [hour |-> p.req.hour,
                                               minute |-> p.req.minute,
                                               noFeedDay |-> p.req.noFeedDay]]
        /\ proc' = [proc EXCEPT ![i] =
               IF Len(valid) > 0
               THEN [p EXCEPT !.pc = "resv_write", !.pending = recalculated,
                              !.at = clock, !.wrote = Append(@, "timer"),
                              !.out = [NoOut EXCEPT !.code = "UPDATED"]]
               ELSE [Answer(p, "UPDATED") EXCEPT !.wrote = Append(@, "timer")]]
        /\ UNCHANGED <<clock, device, tasks, nreq, feedLog, cf, firebase>>

(***************************************************************************)
(* The Arduino overwrites lastFeedTime with millis(), a value far below    *)
(* the year 2000 (README_BACKEND_FIX.md)                                   *)
(***************************************************************************)
ArduinoMillis == 123

ArduinoOverwrite ==
    /\ feeder.lastFeedTime # ArduinoMillis
    /\ feeder' = [feeder EXCEPT !.lastFeedTime = ArduinoMillis]
    /\ UNCHANGED <<clock, device, proc, tasks, nreq, feedLog, cf, firebase>>

(***************************************************************************)
(* Initial states and requests                                             *)
(***************************************************************************)
Requesters ==
    { [NoReq EXCEPT !.user = "Ann", !.deviceId = "d1"],
      [NoReq EXCEPT !.user = "Bob", !.deviceId = "d2"],
      [NoReq EXCEPT !.user = "Cy", !.userEmail = "cy@x"] }

TimerRequests ==
    { [NoReq EXCEPT !.hour = 0, !.minute = 0],
      [NoReq EXCEPT !.hour = 0, !.minute = 1, !.noFeedDay = 4] }

NoCf == [lastFeedTime |-> Null, cooldownMs |-> 0, now |-> 0, result |-> "none"]

\* the process before its first getDatabase(): let dbInstance = null,
\* let initAttempted = false, admin.apps empty.  env is what the process finds
\* in FIREBASE_SERVICE_ACCOUNT and FIREBASE_DB_URL; failed, ncalls, result and
\* calls record the getDatabase() calls made (history)
Process(env) ==
    [env |-> env, dbInstance |-> Null, initAttempted |-> FALSE, apps |-> 0,
     failed |-> FALSE, ncalls |-> 0, result |-> "", calls |-> <<>>]

Feeder(lastFeedTime, minute, noFeedDay, autoFeedDelayMinutes, reservations) ==
    [status |-> 0, lastFeedTime |-> lastFeedTime, lastFeed |-> Null,
     timer |-> [hour |-> 0, minute |-> minute, noFeedDay |-> noFeedDay],
     priority |-> [autoFeedDelayMinutes |-> autoFeedDelayMinutes],
     reservations |-> reservations, history |-> <<>>]

Reservation(req, createdAt, scheduledTime) ==
    [user |-> req.user, userEmail |-> req.userEmail, deviceId |-> req.deviceId,
     scheduledTime |-> scheduledTime, createdAt |-> createdAt]

Ann == [NoReq EXCEPT !.user = "Ann", !.deviceId = "d1"]
Bob == [NoReq EXCEPT !.user = "Bob", !.deviceId = "d2"]
Cy == [NoReq EXCEPT !.user = "Cy", !.userEmail = "cy@x"]

\* queues that Enqueue has built with cooldown one minute while a feed made
\* one clock step before T0 was cooling down
HonestQueues ==
    { <<>>,
      <<Reservation(Ann, T0 - TickStep, T0 + TickStep)>>,
      <<Reservation(Ann, T0 - TickStep, T0 + TickStep),
        Reservation(Bob, T0 - TickStep + 1, T0 + TickStep + 60)>> }

InitRest ==
    /\ clock = T0
    /\ device = [lastSeen |-> T0, uptime |-> 100, wifi |-> "connected"]
    /\ proc = [i \in Procs |-> IdleProc]
    /\ tasks = {}
    /\ nreq = 0
    /\ feedLog = <<>>
    /\ firebase = Process("good")
    /\ cf = NoCf

Env == Tick \/ ActuatorDone

Dispatcher(i) == SetLastFeedTime(i) \/ SetLastFeed(i) \/ SetStatus(i) \/ FeedReturn(i)

Detached == \E t \in tasks : HistoryRead(t) \/ HistoryWrite(t) \/ ReservationsDetached(t)

(***************************************************************************)
(* Spec: the decision engine.  Periodic checks (both routes) and operator  *)
(* feeds, one invocation after the other, on a store that was never fed,   *)
(* was fed one clock step ago, or holds the Arduino's millis(); cooldown 0 *)
(* or one minute; Thursday is or is not the fasting day.  The device was   *)
(* last seen at T0 and falls silent.                                       *)
(***************************************************************************)
Init ==
    /\ feeder \in { Feeder(l, m, d, a, q) :
                       l \in {0, T0 - TickStep, ArduinoMillis}, m \in {0, 1},
                       d \in {Null, 4}, a \in {Null, 0}, q \in HonestQueues }
    /\ InitRest

Engine(i) ==
    \/ CronRead(i)
    \/ ExecStart(i) \/ ExecRead(i)
    \/ ManualStart(i) \/ ManualRead(i)
    \/ ReservationsSet(i)
    \/ Dispatcher(i)

Next == Env \/ Detached \/ Engine("p1")

Spec == Init /\ [][Next]_vars

(***************************************************************************)
(* Properties of the decision engine (Spec)                                *)
(***************************************************************************)
Corrupt(lastFeedTime) == lastFeedTime > 0 /\ lastFeedTime < MIN_VALID_EPOCH

\* C2: a periodic check whose snapshot has status = Dispensing performs no
\* dispatch: it answers type none and writes nothing (no lastFeedTime, status,
\* reservations or history write, awaited or detached), whatever the clock,
\* cooldown, lastFeedTime, queue and fasting day are.
C2_NoDispatchWhileDispensing ==
    \A i \in Procs :
        (proc[i].kind \in {"cron", "exec"} /\ proc[i].snap # NoSnap
         /\ proc[i].snap.status = 1)
        => /\ proc[i].pc = "done"
           /\ proc[i].dec.type = "none"
           /\ proc[i].wrote = <<>>
           /\ \A t \in tasks : t.owner # i

\* a periodic check that the status guard alone stops: the cooldown has elapsed
C2_Witness ==
    \E i \in Procs :
        /\ proc[i].kind = "cron" /\ proc[i].pc = "done"
        /\ proc[i].snap # NoSnap /\ proc[i].snap.status = 1
        /\ proc[i].out.code = "already_feeding"
        /\ canFeed(normalizedLastFeedTime(proc[i].snap.lastFeedTime, proc[i].now),
                   cooldownOf(proc[i].snap), proc[i].now)

\* the store holds the instant T of the last dispatch
LastDispatchStored ==
    /\ Len(feedLog) > 0
    /\ feeder.lastFeedTime = feedLog[Len(feedLog)]

\* C4: after a dispatch at T with cooldown C, canFeed is false at every instant
\* t with T < t < T + C and true at every instant t >= T + C.
C4_CooldownWindow ==
    LastDispatchStored =>
        LET T == feeder.lastFeedTime
            C == cooldownOf(feeder)
        IN  \A t \in (T + 1)..(T + C + TickStep) :
                canFeed(T, C, t) = (t >= T + C)

\* the clock has run through the whole window of a dispatch with cooldown > 0
C4_Witness ==
    /\ LastDispatchStored
    /\ cooldownOf(feeder) > 0
    /\ clock >= feeder.lastFeedTime + cooldownOf(feeder)

\* C5: with invocations one after the other, a constant cooldown C and
\* lastFeedTime written by the backend alone, two consecutive dispatches are at
\* least C apart.
C5_DispatchesCooldownApart ==
    Len(feedLog) = 2 => feedLog[2] - feedLog[1] >= cooldownOf(feeder)

\* C10: with cooldown > 0, an invocation that reads a corrupt lastFeedTime is
\* not rejected by its cooldown guard (the corrupt value is treated as absent).
C10_CorruptNotRejected ==
    \A i \in Procs :
        (proc[i].pc = "done" /\ proc[i].kind \in {"cron", "exec", "manual"}
         /\ proc[i].snap # NoSnap /\ Corrupt(proc[i].snap.lastFeedTime)
         /\ cooldownOf(proc[i].snap) > 0)
        => proc[i].out.code \notin {"cooldown_active", "COOLDOWN_ACTIVE"}

(***************************************************************************)
(* SpecCanFeed: the cooldown calculator alone.  canFeed is applied to one  *)
(* argument triple drawn from: lastFeedTime absent, 0, below the epoch     *)
(* floor, at the floor, recent; cooldowns from 0:00 to 23:59; instants     *)
(* before and after lastFeedTime + cooldown, a clock set before 2000       *)
(* included.                                                               *)
(***************************************************************************)
CfLastFeedTimes ==
    {Null, 0, 1, ArduinoMillis, MIN_VALID_EPOCH - 1, MIN_VALID_EPOCH,
     T0 - TickStep, T0}

CfCooldowns ==
    {calculateCooldownMs(0, 0), calculateCooldownMs(0, 1),
     calculateCooldownMs(1, 0), calculateCooldownMs(23, 59)}

CfNows == {0, 1, ArduinoMillis, MIN_VALID_EPOCH, T0, T0 + TickStep, MaxClock}

InitCanFeed ==
    /\ cf \in [lastFeedTime : CfLastFeedTimes, cooldownMs : CfCooldowns,
               now : CfNows, result : {"none"}]
    /\ feeder = Feeder(0, 0, Null, Null, <<>>)
    /\ clock = T0
    /\ device = [lastSeen |-> T0, uptime |-> 100, wifi |-> "connected"]
    /\ proc = [i \in Procs |-> IdleProc]
    /\ tasks = {}
    /\ nreq = 0
    /\ feedLog = <<>>
    /\ firebase = Process("good")

\* canFeed(lastFeedTime, cooldownMs) called at the instant cf.now
ApplyCanFeed ==
    /\ cf.result = "none"
    /\ cf' = [cf EXCEPT !.result =
                 IF canFeed(cf.lastFeedTime, cf.cooldownMs, cf.now)
                 THEN "true" ELSE "false"]
    /\ UNCHANGED <<clock, feeder, device, proc, tasks, nreq, feedLog, firebase>>

NextCanFeed == ApplyCanFeed

SpecCanFeed == InitCanFeed /\ [][NextCanFeed]_vars

\* C9: canFeed returns true whenever lastFeedTime is absent, 0, or a positive
\* value below the epoch floor (2000-01-01), for every cooldown duration and
\* every current instant.
C9_CanFeedAbsentOrCorrupt ==
    (cf.result # "none"
     /\ (cf.lastFeedTime = Null \/ cf.lastFeedTime = 0 \/ Corrupt(cf.lastFeedTime)))
    => cf.result = "true"

\* canFeed has returned true for a corrupt lastFeedTime at an instant that lies
\* before lastFeedTime + cooldown
C9_Witness ==
    /\ cf.result = "true"
    /\ Corrupt(cf.lastFeedTime)
    /\ cf.now < cf.lastFeedTime + cf.cooldownMs

(***************************************************************************)
(* SpecFifo: the periodic check (both routes) on a queue of three          *)
(* reservations stored in every order.  The creation instants are distinct *)
(* and each entry is due either before T0 or one clock step after it, so   *)
(* the stored order, the creation order and the due order all disagree in  *)
(* some initial state.  The store is written by clients as well as by the  *)
(* backend, which is why the check sorts and does not trust the order.     *)
(***************************************************************************)
Permutations3(a, b, c) ==
    { <<a, b, c>>, <<a, c, b>>, <<b, a, c>>, <<b, c, a>>, <<c, a, b>>, <<c, b, a>> }

FifoQueues ==
    UNION { Permutations3(Reservation(Ann, T0 - 3 * TickStep, sa),
                          Reservation(Bob, T0 - 2 * TickStep, sb),
                          Reservation(Cy, T0 - TickStep, sc)) :
                sa \in {T0 - TickStep, T0 + TickStep},
                sb \in {T0 - TickStep, T0 + TickStep},
                sc \in {T0 - TickStep, T0 + TickStep} }

InitFifo ==
    /\ feeder \in { Feeder(0, m, Null, Null, q) : m \in {0, 1}, q \in FifoQueues }
    /\ InitRest

PeriodicCheck(i) ==
    \/ CronRead(i)
    \/ ExecStart(i) \/ ExecRead(i)
    \/ ReservationsSet(i)
    \/ Dispatcher(i)

NextFifo == Env \/ Detached \/ PeriodicCheck("p1")

SpecFifo == InitFifo /\ [][NextFifo]_vars

\* the stored entries of the snapshot that are due at the instant of the check
Eligible(p) ==
    { k \in 1..Len(p.snap.reservations) :
          p.snap.reservations[k].scheduledTime <= p.readAt }

\* C3: whenever the periodic check dispatches a reservation, it is the stored
\* entry with the smallest createdAt among the entries with
\* scheduledTime <= now, whatever the stored order of the queue is.
C3_DispatchesOldestEligible ==
    \A i \in Procs :
        (proc[i].kind \in {"cron", "exec"} /\ proc[i].dec.type = "reservation")
        => /\ \E k \in Eligible(proc[i]) : proc[i].snap.reservations[k] = proc[i].dec.sel
           /\ \A k \in Eligible(proc[i]) :
                  proc[i].dec.sel.createdAt <= proc[i].snap.reservations[k].createdAt

\* a reservation has been dispatched and requested from the actuator although
\* an entry stored in front of it was due as well
C3_Witness ==
    \E i \in Procs :
        /\ proc[i].kind \in {"cron", "exec"} /\ proc[i].dec.type = "reservation"
        /\ "status" \in { proc[i].wrote[n] : n \in 1..Len(proc[i].wrote) }
        /\ \E k \in Eligible(proc[i]), j \in Eligible(proc[i]) :
               /\ j < k
               /\ proc[i].snap.reservations[k] = proc[i].dec.sel

(***************************************************************************)
(* SpecQueue: the reservation queue.  Enqueue, cancel, timer updates and   *)
(* the periodic check run one after the other on a store that was fed one  *)
(* clock step before T0 with cooldown one minute, and whose queue is       *)
(* empty, holds three reservations, or is full (20 entries).  The timer    *)
(* updates move the cooldown between 0:00 and 0:01 and set or clear the    *)
(* fasting day.                                                            *)
(***************************************************************************)
\* a request that carries a deviceId and a contact address of two requesters
BobCy == [NoReq EXCEPT !.user = "Bob", !.deviceId = "d2", !.userEmail = "cy@x"]

QueueRequesters == {Ann, Cy, BobCy}

\* the k-th of n reservations built by Enqueue while the feed of T0 - TickStep
\* was cooling down for one minute
Queued(req, k, n) ==
    Reservation(req, T0 - TickStep + 1 + k - n, T0 - TickStep + k * 60)

Filler(k) ==
    [NoReq EXCEPT !.user = "Visitor", !.deviceId = "f" \o ToString(k)]

FullQueue ==
    [k \in 1..MaxReservations |->
        IF k = MaxReservations THEN Queued(Ann, k, MaxReservations)
        ELSE Queued(Filler(k), k, MaxReservations)]

QueueQueues ==
    { <<>>,
      <<Queued(Ann, 1, 3), Queued(Bob, 2, 3), Queued(Cy, 3, 3)>>,
      FullQueue }

InitQueue ==
    /\ feeder \in { Feeder(T0 - TickStep, 1, d, Null, q) :
                        d \in {Null, 4}, q \in QueueQueues }
    /\ InitRest

\* the write of the queue does not answer within the route's timeout: the
\* route answers TIMEOUT, the write is still in flight (Promise.race cancels
\* nothing)
WriteTimeout(i) ==
    /\ proc[i].pc = "resv_write" /\ proc[i].kind \in {"create", "cancel"}
    /\ tasks' = tasks \cup {ReservationsTask(i, proc[i].pending)}
    /\ proc' = [proc EXCEPT ![i].pc = "done", ![i].out = [NoOut EXCEPT !.code = "TIMEOUT"]]
    /\ UNCHANGED <<clock, feeder, device, nreq, feedLog, cf, firebase>>

QueueOps(i) ==
    \/ \E req \in QueueRequesters :
           CreateRead(i, req) \/ CreateReadTimeout(i, req) \/ CancelRead(i, req)
    \/ \E req \in TimerRequests : TimerRead(i, req)
    \/ TimerWrite(i)
    \/ WriteTimeout(i)
    \/ CronRead(i)
    \/ ReservationsSet(i)
    \/ Dispatcher(i)

NextQueue == Env \/ Detached \/ QueueOps("p1")

SpecQueue == InitQueue /\ [][NextQueue]_vars

(***************************************************************************)
(* Properties of the reservation queue (SpecQueue)                         *)
(***************************************************************************)
\* the entries of the snapshot's queue that carry the identity of the request
Matching(p) ==
    { k \in 1..Len(validReservations(p.snap.reservations)) :
          LET r == validReservations(p.snap.reservations)[k]
          IN  \/ (p.req.deviceId # "" /\ r.deviceId = p.req.deviceId)
              \/ (p.req.userEmail # "" /\ r.userEmail = p.req.userEmail) }

\* the Enqueue has answered with the first stored reservation of its identity,
\* the fields as stored, its 1-based position, and the stored queue is as read
ReturnedUnchanged(p) ==
    /\ p.pc = "done"
    /\ p.out.code = "EXISTS"
    /\ p.out.position \in Matching(p)
    /\ \A k \in Matching(p) : p.out.position <= k
    /\ p.out.resv = validReservations(p.snap.reservations)[p.out.position]
    /\ p.wrote = <<>>
    /\ feeder.reservations = p.snap.reservations

\* C7 as stated: Enqueue for an identity that already has a stored reservation
\* returns that reservation unchanged with its 1-based position and leaves the
\* stored queue unchanged, whatever the day and the length of the queue.
C7_ExistingReturned ==
    \A i \in Procs :
        (proc[i].kind = "create" /\ proc[i].snap # NoSnap /\ Matching(proc[i]) # {})
        => ReturnedUnchanged(proc[i])

\* C7, amended: when the state read has answered and the day is not the fasting
\* day, Enqueue for an identity that already has a stored reservation returns
\* that reservation unchanged with its 1-based position and leaves the stored
\* queue unchanged, also when the queue holds 20 entries.
C7_ExistingReturnedUnlessFasting ==
    \A i \in Procs :
        (/\ proc[i].kind = "create" /\ proc[i].snap # NoSnap
         /\ Matching(proc[i]) # {}
         /\ ~(/\ proc[i].snap.timer.noFeedDay \in 0..6
              /\ getDay(proc[i].now) = proc[i].snap.timer.noFeedDay))
        => ReturnedUnchanged(proc[i])

\* the existing reservation has been returned from a queue of 20 entries, at a
\* position behind the first
C7_Witness ==
    \E i \in Procs :
        /\ proc[i].kind = "create" /\ proc[i].pc = "done"
        /\ proc[i].out.code = "EXISTS"
        /\ Len(proc[i].snap.reservations) = MaxReservations
        /\ proc[i].out.position > 1

\* the stored queue after the removal that invocation p has written
Recomputed(p) ==
    /\ p.kind = "cancel" \/ (p.kind \in {"cron", "exec"} /\ p.dec.type = "reservation")
    /\ \E n \in 1..Len(p.wrote) : p.wrote[n] = "reservations"

ConcRequesters == {Ann, Cy}

InitConc ==
    /\ feeder \in { Feeder(T0 - TickStep, 1, Null, Null, q) :
                        q \in {<<>>, <<Queued(Bob, 1, 1)>>} }
    /\ InitRest

Enqueue(i) ==
    \/ \E req \in ConcRequesters : CreateRead(i, req) \/ CreateReadTimeout(i, req)
    \/ ReservationsSet(i)
    \/ WriteTimeout(i)

LateWrite == \E t \in tasks : ReservationsDetached(t)

NextConc == Tick \/ LateWrite \/ \E i \in Procs : Enqueue(i)

SpecConc == InitConc /\ [][NextConc]_vars

\* C6: when two Enqueue calls with the same identity overlap (both have read
\* the store and neither write has resolved), both return the same reservation:
\* same createdAt and same scheduledTime.
C6_OverlappingEnqueueSameReservation ==
    \A i \in Procs, j \in Procs :
        (/\ i # j
         /\ proc[i].kind = "create" /\ proc[j].kind = "create"
         /\ proc[i].pc = "resv_write" /\ proc[j].pc = "resv_write"
         /\ proc[i].req = proc[j].req)
        => /\ proc[i].out.resv.createdAt = proc[j].out.resv.createdAt
           /\ proc[i].out.resv.scheduledTime = proc[j].out.resv.scheduledTime

(***************************************************************************)
(* GET /api/cron (app/api/cron/route.js): the first periodic check, still  *)
(* routed.  It keeps its own layout of system/feeder: timerHours,          *)
(* timerMinutes, fastingDay, delays, and instants stored either as a       *)
(* number or as separate calendar fields.  The calendar date (year, month, *)
(* day) of the fields is the day number since the epoch.                   *)
(***************************************************************************)
NoStamp == [fmt |-> "none", value |-> Null, day |-> 0, hour |-> 0, minute |-> 0,
            second |-> 0]

\* an instant stored in the legacy number format
Number(n) == [NoStamp EXCEPT !.fmt = "number", !.value = n]

dateToFields(date) ==
    [fmt |-> "fields", value |-> Null,
     day |-> date \div 86400,
     hour |-> (date % 86400) \div 3600,
     minute |-> (date % 3600) \div 60,
     second |-> date % 60]

\* null (Null) when the value is absent, falsy or no valid date
fieldsToDate(fields) ==
    IF fields.fmt = "none" THEN Null
    ELSE IF fields.fmt = "number"
         THEN IF Falsy(fields.value) THEN Null ELSE fields.value
    ELSE IF fields.day # 0 /\ fields.hour \in 0..23 /\ fields.minute \in 0..59
            /\ fields.second \in 0..59
         THEN fields.day * 86400 + fields.hour * 3600 + fields.minute * 60
              + fields.second
         ELSE Null

getCurrentDateFields(now) == dateToFields(now)

\* fieldsToDate of a reservation's instant, stored as a number
numberToDate(n) == IF Falsy(n) THEN Null ELSE n

\* fieldsToDate(a.createdAt || a.scheduledTime)?.getTime() || 0
legacySortKey(r) ==
    OrZero(numberToDate(IF Falsy(r.createdAt) THEN r.scheduledTime ELSE r.createdAt))

RECURSIVE legacyInsert(_, _)
legacyInsert(r, sorted) ==
    IF sorted = <<>> THEN <<r>>
    ELSE IF legacySortKey(sorted[Len(sorted)]) - legacySortKey(r) <= 0
         THEN Append(sorted, r)
         ELSE Append(legacyInsert(r, SubSeq(sorted, 1, Len(sorted) - 1)),
                     sorted[Len(sorted)])

RECURSIVE legacySort(_)
legacySort(rs) ==
    IF rs = <<>> THEN <<>>
    ELSE legacyInsert(rs[Len(rs)], legacySort(SubSeq(rs, 1, Len(rs) - 1)))

legacyReady(valid, now) ==
    legacySort(SelectSeq(valid, LAMBDA r :
        numberToDate(r.scheduledTime) # Null /\ numberToDate(r.scheduledTime) <= now))

\* reservations whose scheduledTime is still ahead of now
legacyCleaned(rs, now) ==
    SelectSeq(rs, LAMBDA r :
        numberToDate(r.scheduledTime) # Null /\ numberToDate(r.scheduledTime) > now)

legacyOnline(deviceData) == deviceData.wifi = "connected" /\ OrZero(deviceData.uptime) > 0

legacyCooldownMs(fd) == (OrZero(fd.timerHours) * 3600) + (OrZero(fd.timerMinutes) * 60)

\* the guards of GET /api/cron in their order
legacyDecision(fd, deviceData, now) ==
    LET lastFeedTime == fieldsToDate(fd.lastFeedTime)
        cooldownMs == legacyCooldownMs(fd)
        autoFeedDelayMs == (IF Falsy(fd.delays.autoFeedDelayMinutes) THEN 30
                            ELSE fd.delays.autoFeedDelayMinutes) * 60
        ready == legacyReady(validReservations(fd.reservations), now)
    IN  IF OrZero(fd.status) = 1
        THEN Decision("none", "already_feeding", NoResv)
        ELSE IF fd.fastingDay # Null /\ getDay(now) = fd.fastingDay
        THEN Decision("none", "fasting_day", NoResv)
        ELSE IF Len(ready) > 0 /\ legacyOnline(deviceData)
        THEN Decision("reservation", "", ready[1])
        ELSE IF /\ lastFeedTime # Null /\ cooldownMs > 0 /\ legacyOnline(deviceData)
                /\ now >= lastFeedTime + cooldownMs + autoFeedDelayMs
        THEN Decision("auto", "", NoResv)
        ELSE Decision("none", "no_feed_needed", NoResv)

\* const now = new Date(), taken before the store is read
LegacyStart(i) ==
    /\ Free(i)
    /\ nreq' = nreq + 1
    /\ proc' = [proc EXCEPT ![i] = [IdleProc EXCEPT !.pc = "read", !.kind = "legacy",
                                                    !.now = clock]]
    /\ UNCHANGED <<clock, feeder, device, tasks, feedLog, cf, firebase>>

\* the reads resolve and the guards run; with no feed to make, the expired
\* reservations are cleaned
LegacyRead(i) ==
    LET now == proc[i].now
        dec == legacyDecision(feeder, device, now)
        valid == validReservations(feeder.reservations)
        cleaned == legacyCleaned(valid, now)
        p == [IdleProc EXCEPT !.kind = "legacy", !.now = now, !.snap = feeder,
                              !.dec = dec, !.readAt = clock]
    IN  /\ proc[i].pc = "read" /\ proc[i].kind = "legacy"
        /\ proc' = [proc EXCEPT ![i] =
               IF dec.type # "none"
               THEN [p EXCEPT !.pc = "lg_status"]
               ELSE IF dec.reason = "no_feed_needed" /\ Len(cleaned) # Len(valid)
               THEN [p EXCEPT !.pc = "lg_clean", !.pending = cleaned,
                              !.out = [NoOut EXCEPT !.code = dec.reason]]
               ELSE Answer(p, dec.reason)]
        /\ UNCHANGED <<clock, feeder, device, tasks, nreq, feedLog, cf, firebase>>

\* await feederRef.child('status').set(1): the first write of both branches
LegacySetStatus(i) ==
    /\ proc[i].pc = "lg_status"
    /\ feeder' = [feeder EXCEPT !.status = 1]
    /\ feedLog' = Logged(feedLog, clock)
    /\ proc' = [proc EXCEPT ![i].pc = IF proc[i].dec.type = "reservation"
                                      THEN "lg_remove" ELSE "lg_lastFeedTime",
                            ![i].wrote = Append(@, "status")]
    /\ UNCHANGED <<clock, device, tasks, nreq, cf, firebase>>

\* the executed reservation is removed by its createdAt and the queue written;
\* lastFeedTime is left to the device
LegacyRemove(i) ==
    LET p == proc[i]
        key(r) == numberToDate(IF Falsy(r.createdAt) THEN r.scheduledTime ELSE r.createdAt)
        updated == SelectSeq(validReservations(p.snap.reservations),
                             LAMBDA r : key(r) # key(p.dec.sel))
        cleaned == legacyCleaned(updated, p.now)
    IN  /\ p.pc = "lg_remove"
        /\ feeder' = [feeder EXCEPT !.reservations = updated]
        /\ proc' = [proc EXCEPT ![i] =
               IF Len(cleaned) # Len(updated)
               THEN [p EXCEPT !.pc = "lg_clean", !.pending = cleaned,
                              !.wrote = Append(@, "reservations"),
                              !.out = [NoOut EXCEPT !.code = "reservation"]]
               ELSE [Answer(p, "reservation") EXCEPT !.wrote = Append(@, "reservations")]]
        /\ UNCHANGED <<clock, device, tasks, nreq, feedLog, cf, firebase>>

\* await feederRef.child('reservations').set(cleanedReservations)
LegacyClean(i) ==
    /\ proc[i].pc = "lg_clean"
    /\ feeder' = [feeder EXCEPT !.reservations = proc[i].pending]
    /\ proc' = [proc EXCEPT ![i].pc = "done", ![i].wrote = Append(@, "reservations")]
    /\ UNCHANGED <<clock, device, tasks, nreq, feedLog, cf, firebase>>

\* await feederRef.child('lastFeedTime').set(getCurrentDateFields())
LegacySetLastFeedTime(i) ==
    /\ proc[i].pc = "lg_lastFeedTime"
    /\ feeder' = [feeder EXCEPT !.lastFeedTime = getCurrentDateFields(clock)]
    /\ proc' = [proc EXCEPT ![i].pc = "lg_lastFeed", ![i].ts = clock,
                            ![i].wrote = Append(@, "lastFeedTime")]
    /\ UNCHANGED <<clock, device, tasks, nreq, feedLog, cf, firebase>>

\* await feederRef.child('lastFeed').set(lastFeedStr), then the answer
LegacySetLastFeed(i) ==
    /\ proc[i].pc = "lg_lastFeed"
    /\ feeder' = [feeder EXCEPT !.lastFeed = getCurrentDateFields(proc[i].ts)]
    /\ proc' = [proc EXCEPT ![i] =
           [Answer(proc[i], "auto") EXCEPT !.wrote = Append(proc[i].wrote, "lastFeed")]]
    /\ UNCHANGED <<clock, device, tasks, nreq, feedLog, cf, firebase>>

(***************************************************************************)
(* SpecLegacy: GET /api/cron, one invocation after the other, on a store   *)
(* in its layout: never fed, fed two minutes or one hour before T0;        *)
(* cooldown 0 or one minute; unattended-feed delay absent (30 minutes) or  *)
(* one minute; the device connected or not.                                *)
(***************************************************************************)
LegacyFeeder(lastFeedTime, timerMinutes, fastingDay, autoFeedDelayMinutes, reservations) ==
    [status |-> 0, lastFeedTime |-> lastFeedTime, lastFeed |-> Null,
     timerHours |-> 0, timerMinutes |-> timerMinutes, fastingDay |-> fastingDay,
     delays |-> [autoFeedDelayMinutes |-> autoFeedDelayMinutes],
     reservations |-> reservations, history |-> <<>>]

InitLegacy ==
    /\ feeder \in { LegacyFeeder(l, m, d, a, q) :
                        l \in {NoStamp, Number(T0 - 4 * TickStep), dateToFields(T0 - 3600)},
                        m \in {0, 1}, d \in {Null, 4}, a \in {Null, 1},
                        q \in HonestQueues }
    /\ device \in { [lastSeen |-> T0, uptime |-> 100, wifi |-> "connected"],
                    [lastSeen |-> Null, uptime |-> 0, wifi |-> "disconnected"] }
    /\ clock = T0
    /\ proc = [i \in Procs |-> IdleProc]
    /\ tasks = {}
    /\ nreq = 0
    /\ feedLog = <<>>
    /\ firebase = Process("good")
    /\ cf = NoCf

LegacyCron(i) ==
    \/ LegacyStart(i) \/ LegacyRead(i)
    \/ LegacySetStatus(i)
    \/ LegacyRemove(i) \/ LegacyClean(i)
    \/ LegacySetLastFeedTime(i) \/ LegacySetLastFeed(i)

NextLegacy == Env \/ LegacyCron("p1")

SpecLegacy == InitLegacy /\ [][NextLegacy]_vars

\* C1: in every dispatch the write of lastFeedTime has completed before the
\* actuator is requested: no invocation has written status = 1 without having
\* written lastFeedTime before it.
C1_LastFeedTimeBeforeStatus ==
    \A i \in Procs :
        \A n \in 1..Len(proc[i].wrote) :
            proc[i].wrote[n] = "status"
            => \E m \in 1..(n - 1) : proc[i].wrote[m] = "lastFeedTime"

(***************************************************************************)
(* Guard order of the periodic check (Spec)                                *)
(***************************************************************************)
\* the device record the store holds makes the device offline at the instant
\* now by both thresholds of the code (isDeviceOnlineFast 60 s, isDeviceOnline
\* 120 s)
Offline(deviceData, now) ==
    /\ ~isDeviceOnlineFast(deviceData.lastSeen, deviceData, now)
    /\ ~isDeviceOnline(deviceData.lastSeen, deviceData, now)

\* C11: the periodic check answers with the reason of the first failing guard
\* in the order fasting day, device offline, status Dispensing, cooldown:
\* fasting_day when it is the fasting day, else device_offline when the device
\* is offline, else already_feeding when the status is Dispensing.
C11_FirstFailingGuard ==
    \A i \in Procs :
        (proc[i].kind \in {"cron", "exec"} /\ proc[i].snap # NoSnap)
        => LET fasting == isFastingDay(proc[i].snap.timer.noFeedDay, proc[i].readAt)
               offline == Offline(device, proc[i].readAt)
               dispensing == proc[i].snap.status = 1
           IN  /\ fasting => proc[i].dec.reason = "fasting_day"
               /\ (~fasting /\ offline) => proc[i].dec.reason = "device_offline"
               /\ (~fasting /\ ~offline /\ dispensing)
                      => proc[i].dec.reason = "already_feeding"

\* the stored lastSeen is more than 60 seconds older than the instant now
Stale60(deviceData, now) ==
    deviceData.lastSeen # Null /\ now - deviceData.lastSeen > 60

\* C14: a periodic check that runs (outside the fasting day) while the stored
\* lastSeen is more than 60 seconds old answers type none with reason
\* device_offline and dispatches nothing, whatever the cooldown and the queue
\* are.
C14_StaleDeviceNoDispatch ==
    \A i \in Procs :
        (/\ proc[i].kind \in {"cron", "exec"} /\ proc[i].snap # NoSnap
         /\ Stale60(device, proc[i].readAt)
         /\ ~isFastingDay(proc[i].snap.timer.noFeedDay, proc[i].readAt))
        => /\ proc[i].dec.type = "none"
           /\ proc[i].dec.reason = "device_offline"
           /\ proc[i].wrote = <<>>

(***************************************************************************)
(* One dispatch per periodic check (Spec)                                  *)
(***************************************************************************)
\* how many times the invocation has written the path
Count(wrote, path) == Cardinality({k \in 1..Len(wrote) : wrote[k] = path})

\* C12: one invocation of the periodic check dispatches at most once: it
\* writes lastFeedTime, lastFeed, status and history at most once each, an
\* unattended feed touches no reservation, and a reservation dispatch removes
\* exactly one reservation from the queue it read.
C12_AtMostOneDispatch ==
    \A i \in Procs :
        (proc[i].kind \in {"cron", "exec"} /\ proc[i].snap # NoSnap)
        => /\ \A path \in {"lastFeedTime", "lastFeed", "status", "history",
                           "reservations"} : Count(proc[i].wrote, path) <= 1
           /\ Cardinality({t \in tasks : t.owner = i /\ t.kind = "history"}) <= 1
           /\ proc[i].dec.type # "reservation"
                  => /\ Count(proc[i].wrote, "reservations") = 0
                     /\ proc[i].pending = <<>>
           /\ (proc[i].dec.type = "reservation" /\ proc[i].pc = "done")
                  => Len(proc[i].pending)
                         = Len(validReservations(proc[i].snap.reservations)) - 1

\* a periodic check that found two reservations ready has dispatched one and
\* answered
C12_Witness ==
    \E i \in Procs :
        /\ proc[i].kind = "cron" /\ proc[i].pc = "done"
        /\ proc[i].snap # NoSnap
        /\ Len(readyReservations(validReservations(proc[i].snap.reservations),
                                 proc[i].readAt)) = 2
        /\ proc[i].dec.type = "reservation"
        /\ Count(proc[i].wrote, "status") = 1
        /\ Len(proc[i].pending) = 1

(***************************************************************************)
(* The operator feed and the queue (Spec)                                  *)
(***************************************************************************)
\* C13: an operator feed that reads a non-empty stored queue dispatches
\* nothing, and when every other guard passes (no fasting day, device online,
\* status Idle, cooldown elapsed) it is rejected with RESERVATIONS_EXIST, also
\* when no reservation is ready yet.
C13_ManualRejectedWhileQueued ==
    \A i \in Procs :
        (/\ proc[i].kind = "manual" /\ proc[i].snap # NoSnap
         /\ Len(proc[i].snap.reservations) > 0)
        => /\ proc[i].dec.type = "none"
           /\ proc[i].wrote = <<>>
           /\ \A t \in tasks : t.owner # i
           /\ (/\ ~isFastingDay(proc[i].snap.timer.noFeedDay, proc[i].readAt)
               /\ isDeviceOnline(device.lastSeen, device, proc[i].readAt)
               /\ proc[i].snap.status = 0
               /\ canFeed(normalizedLastFeedTime(proc[i].snap.lastFeedTime,
                                                 proc[i].readAt),
                          cooldownOf(proc[i].snap), proc[i].readAt))
              => proc[i].out.code = "RESERVATIONS_EXIST"

\* an operator feed is rejected for the queue alone: the cooldown has elapsed
\* and no stored reservation is ready
C13_Witness ==
    \E i \in Procs :
        /\ proc[i].kind = "manual" /\ proc[i].pc = "done"
        /\ proc[i].snap # NoSnap
        /\ proc[i].out.code = "RESERVATIONS_EXIST"
        /\ Len(proc[i].snap.reservations) > 0
        /\ Len(readyReservations(validReservations(proc[i].snap.reservations),
                                 proc[i].readAt)) = 0
        /\ cooldownOf(proc[i].snap) > 0
        /\ canFeed(normalizedLastFeedTime(proc[i].snap.lastFeedTime, proc[i].readAt),
                   cooldownOf(proc[i].snap), proc[i].readAt)

(***************************************************************************)
(* SpecAuto: Scenario A.  Cooldown 30 minutes, empty queue, never fed,     *)
(* status Idle, no fasting day, the device reporting itself; the delay of  *)
(* the unattended feed is 0 or 1 minute.  The scheduler invokes the        *)
(* periodic check again and again, without limit, and each route           *)
(* infinitely often (strong fairness: a route is not enabled while the     *)
(* other one runs); the clock and every started handler are weakly fair.   *)
(***************************************************************************)
ScenarioCooldownMinutes == 30

AutoDelays == {0, 1}

InitAuto ==
    /\ feeder \in { Feeder(0, ScenarioCooldownMinutes, Null, a, <<>>) : a \in AutoDelays }
    /\ InitRest

\* the scheduler never runs out of requests: an invocation that has answered
\* and whose detached work has run is forgotten
Rearm(i) ==
    /\ proc[i].pc = "done"
    /\ \A t \in tasks : t.owner # i
    /\ proc' = [proc EXCEPT ![i] = IdleProc]
    /\ nreq' = 0
    /\ UNCHANGED <<clock, feeder, device, tasks, feedLog, cf, firebase>>

PeriodicCron(i) == proc[i].pc = "idle" /\ CronRead(i)

PeriodicExec(i) == (proc[i].pc = "idle" /\ ExecStart(i)) \/ ExecRead(i)

AutoDetached == \E t \in tasks : HistoryRead(t) \/ HistoryWrite(t)

NextAuto ==
    \/ Env \/ Heartbeat \/ AutoDetached
    \/ PeriodicCron("p1") \/ PeriodicExec("p1") \/ Rearm("p1")
    \/ Dispatcher("p1")

SpecAuto ==
    /\ InitAuto /\ [][NextAuto]_vars
    /\ WF_vars(Tick) /\ WF_vars(ActuatorDone) /\ WF_vars(Heartbeat)
    /\ WF_vars(AutoDetached)
    /\ SF_vars(PeriodicCron("p1")) /\ SF_vars(PeriodicExec("p1"))
    /\ WF_vars(Rearm("p1"))
    /\ WF_vars(Dispatcher("p1"))

\* C15: in Scenario A repeated periodic checks eventually dispatch the
\* unattended feed (at once with delay 0, after the delay otherwise).
C15_UnattendedEventually ==
    <>(\E i \in Procs : proc[i].dec.type = "timer" /\ Len(feedLog) > 0)

(***************************************************************************)
(* SpecEnqueue: Scenario B.  Cooldown 10 minutes and an empty queue, on a  *)
(* store that was never fed or was fed one clock step before T0; Ann and   *)
(* Cy enqueue one after the other.                                         *)
(***************************************************************************)
EnqueueCooldownMinutes == 10

InitEnqueue ==
    /\ feeder \in { Feeder(l, EnqueueCooldownMinutes, Null, Null, <<>>) :
                       l \in {0, T0 - TickStep} }
    /\ InitRest

BackToBack(i) ==
    \/ \E req \in ConcRequesters : CreateRead(i, req)
    \/ ReservationsSet(i)

NextEnqueue == Tick \/ BackToBack("p1")

SpecEnqueue == InitEnqueue /\ [][NextEnqueue]_vars

\* C16: on a store that was never fed, with cooldown C, an Enqueue that reads
\* the empty queue succeeds with scheduledTime = now at position 1, and an
\* Enqueue of another identity that reads a queue of one succeeds with
\* scheduledTime = the first's scheduledTime + C at position 2.
C16_BackToBackEnqueue ==
    \A i \in Procs :
        (/\ proc[i].kind = "create" /\ proc[i].snap # NoSnap
         /\ proc[i].snap.lastFeedTime = 0)
        => LET stored == proc[i].snap.reservations
           IN  /\ Len(stored) = 0
                      => /\ proc[i].out.code = "CREATED"
                         /\ proc[i].out.position = 1
                         /\ proc[i].out.resv.scheduledTime = proc[i].now
               /\ (Len(stored) = 1 /\ findIndex(stored, proc[i].req) = 0)
                      => /\ proc[i].out.code = "CREATED"
                         /\ proc[i].out.position = 2
                         /\ proc[i].out.resv.scheduledTime
                                = stored[1].scheduledTime + cooldownOf(proc[i].snap)

(***************************************************************************)
(* The unattended feed and the queue (Spec, SpecLegacy)                    *)
(***************************************************************************)
\* C17: a periodic check dispatches the unattended feed (type timer; auto in
\* GET /api/cron) only when the queue it read is empty: while any reservation
\* is stored, ready or not, no unattended feed is dispatched.
C17_UnattendedOnlyWhenQueueEmpty ==
    \A i \in Procs :
        (proc[i].snap # NoSnap /\ proc[i].dec.type \in {"timer", "auto"})
        => Len(proc[i].snap.reservations) = 0

(***************************************************************************)
(* SpecFasting: every trigger around midnight.  T0 is Wednesday 23:59:00   *)
(* and Thursday begins two clock steps later; the fasting day is absent,   *)
(* Wednesday or Thursday.  Periodic checks (both routes), operator feeds   *)
(* and Enqueue requests follow one another.                                *)
(***************************************************************************)
FastingDays == {Null, getDay(T0), getDay(T0 + 86400)}

InitFasting ==
    /\ feeder \in { Feeder(l, 1, d, 0, q) :
                       l \in {0, T0 - TickStep}, d \in FastingDays, q \in HonestQueues }
    /\ InitRest

Triggers(i) ==
    \/ Engine(i)
    \/ \E req \in ConcRequesters : CreateRead(i, req)

NextFasting == Env \/ Detached \/ Triggers("p1")

SpecFasting == InitFasting /\ [][NextFasting]_vars

\* the instant at which the invocation evaluated its guards
CheckedAt(p) == IF p.kind = "create" THEN p.now ELSE p.readAt

\* the day of week of that instant is the stored fasting day
CheckedOnFastingDay(p) ==
    /\ p.snap # NoSnap
    /\ p.snap.timer.noFeedDay # Null
    /\ getDay(CheckedAt(p)) = p.snap.timer.noFeedDay

SetLastFeedTimeFails_Swallowed(i) ==
    /\ proc[i].pc = "tf_lastFeedTime"
    /\ proc' = [proc EXCEPT ![i].pc = "tf_parallel",
                            ![i].par = {"lastFeed", "status"}]
    /\ UNCHANGED <<clock, feeder, device, tasks, nreq, feedLog, cf, firebase>>

\* await feederRef.child('lastFeedTime').set(timestampMs) rejects
SetLastFeedTimeFails(i) ==
    /\ proc[i].pc = "tf_lastFeedTime"
    /\ proc' = [proc EXCEPT ![i] = Answer(proc[i], "INTERNAL_ERROR")]
    /\ UNCHANGED <<clock, feeder, device, tasks, nreq, feedLog, cf, firebase>>

\* a write of the Promise.all that is still in flight when the other rejects
LateTask(i, path) ==
    [owner |-> i, kind |-> "late", stage |-> path,
     entry |-> [timestamp |-> proc[i].ts, type |-> "", user |-> ""],
     data |-> <<>>]

\* mutant: the rejection of lastFeed.set / status.set is logged only and
\* triggerFeed returns its record
ParallelFails_Logged(i) ==
    /\ proc[i].pc = "tf_parallel" /\ proc[i].par # {}
    /\ proc' = [proc EXCEPT ![i].par = {}]
    /\ UNCHANGED <<clock, feeder, device, tasks, nreq, feedLog, cf, firebase>>

\* one write of Promise.all([lastFeed.set, status.set(1)]) rejects: the
\* Promise.all rejects at once and triggerFeed rethrows ("These are also
\* critical"); the write still in flight is not cancelled
ParallelFails(i) ==
    /\ proc[i].pc = "tf_parallel" /\ proc[i].par # {}
    /\ \E path \in proc[i].par :
           tasks' = tasks \cup {LateTask(i, other) : other \in proc[i].par \ {path}}
    /\ proc' = [proc EXCEPT ![i] = [Answer(proc[i], "INTERNAL_ERROR") EXCEPT !.par = {}]]
    /\ UNCHANGED <<clock, feeder, device, nreq, feedLog, cf, firebase>>

\* the write left in flight lands after the route has answered
LateSet(t) ==
    /\ t \in tasks /\ t.kind = "late"
    /\ feeder' = IF t.stage = "status" THEN [feeder EXCEPT !.status = 1]
                 ELSE [feeder EXCEPT !.lastFeed = t.entry.timestamp]
    /\ feedLog' = IF t.stage = "status" THEN Logged(feedLog, t.entry.timestamp)
                  ELSE feedLog
    /\ tasks' = tasks \ {t}
    /\ proc' = [proc EXCEPT ![t.owner].wrote = Append(@, t.stage \o "_late")]
    /\ UNCHANGED <<clock, device, nreq, cf, firebase>>

\* the write left in flight rejects too: nobody awaits it
LateFails(t) ==
    /\ t \in tasks /\ t.kind = "late"
    /\ tasks' = tasks \ {t}
    /\ UNCHANGED <<clock, feeder, device, proc, nreq, feedLog, cf, firebase>>

\* the detached history append throws (its read or its write rejects): the
\* catch of the setTimeout callback logs the error
HistoryFails(t) ==
    /\ t \in tasks /\ t.kind = "history"
    /\ tasks' = tasks \ {t}
    /\ proc' = [proc EXCEPT ![t.owner].wrote = Append(@, "history_failed")]
    /\ UNCHANGED <<clock, feeder, device, nreq, feedLog, cf, firebase>>

\* the route has dispatched and answered; its Telegram notification
\* (sendReservationExecutedMessage, sendAutoFeedMessage,
\* sendFeedExecutedMessage) is still to be sent
Notifying(i) ==
    /\ proc[i].pc = "done"
    /\ proc[i].out.code \in {"reservation", "timer", "manual"}
    /\ \A n \in 1..Len(proc[i].wrote) :
           proc[i].wrote[n] \notin {"notify", "notify_failed"}

NotifySent(i) ==
    /\ Notifying(i)
    /\ proc' = [proc EXCEPT ![i].wrote = Append(@, "notify")]
    /\ UNCHANGED <<clock, feeder, device, tasks, nreq, feedLog, cf, firebase>>

\* sendTelegram throws: the helper catches and logs ("Don't throw - Telegram
\* failures shouldn't break the feed")
NotifyFails(i) ==
    /\ Notifying(i)
    /\ proc' = [proc EXCEPT ![i].wrote = Append(@, "notify_failed")]
    /\ UNCHANGED <<clock, feeder, device, tasks, nreq, feedLog, cf, firebase>>

(***************************************************************************)
(* SpecFail: the decision engine with failing writes.  Periodic checks     *)
(* (both routes) and operator feeds follow one another on a store that was *)
(* never fed or was fed one clock step before T0, with cooldown one minute *)
(* and no delay of the unattended feed; every write of the dispatcher, the *)
(* history append and the notification may fail.                           *)
(***************************************************************************)
InitFail ==
    /\ feeder \in { Feeder(l, 1, Null, 0, q) :
                       l \in {0, T0 - TickStep}, q \in HonestQueues }
    /\ InitRest

Failures(i) ==
    \/ SetLastFeedTimeFails(i)
    \/ ParallelFails(i)
    \/ NotifySent(i) \/ NotifyFails(i)

DetachedFailures == \E t \in tasks : LateSet(t) \/ LateFails(t) \/ HistoryFails(t)

NextFail == Env \/ Detached \/ DetachedFailures \/ Engine("p1") \/ Failures("p1")

SpecFail == InitFail /\ [][NextFail]_vars

\* the paths the invocation has written
Written(p) == {p.wrote[n] : n \in 1..Len(p.wrote)}

\* the invocation decided to dispatch and has answered
Dispatching(p) == p.snap # NoSnap /\ p.dec.type \notin {"", "none"} /\ p.pc = "done"

\* C19: a dispatch whose lastFeedTime write fails answers with the error and
\* has written nothing: status is not set, no history is appended or pending,
\* the queue is not rewritten, and the store is as the invocation read it.
C19_LastFeedTimeFailureIsFatal ==
    \A i \in Procs :
        (Dispatching(proc[i]) /\ "lastFeedTime" \notin Written(proc[i]))
        => /\ proc[i].out.code = "INTERNAL_ERROR"
           /\ proc[i].wrote = <<>>
           /\ proc[i].pending = <<>>
           /\ \A t \in tasks : t.owner # i
           /\ feeder = proc[i].snap

\* a periodic check chose a ready reservation, its lastFeedTime write failed,
\* and the reservation is still stored
C19_Witness ==
    \E i \in Procs :
        /\ proc[i].kind = "cron" /\ Dispatching(proc[i])
        /\ proc[i].dec.type = "reservation"
        /\ proc[i].out.code = "INTERNAL_ERROR"
        /\ "lastFeedTime" \notin Written(proc[i])
        /\ feeder.status = 0
        /\ feeder.reservations = proc[i].snap.reservations
        /\ Len(feeder.reservations) > 0

\* the three awaited writes of triggerFeed
Awaited == {"lastFeedTime", "lastFeed", "status"}

\* C20 as stated: the lastFeedTime write is the only failure that propagates:
\* a dispatch that answers with the error has not written lastFeedTime.
C20_OnlyLastFeedTimePropagates ==
    \A i \in Procs :
        (Dispatching(proc[i]) /\ proc[i].out.code = "INTERNAL_ERROR")
        => "lastFeedTime" \notin Written(proc[i])

\* C20 (amended): a dispatch answers with the error exactly when one of its
\* three awaited writes (lastFeedTime, lastFeed, status) has failed; otherwise
\* it returns its record, also when the history append or the notification
\* fails.  No failure undoes a completed step: lastFeedTime, once written,
\* stays at the instant of the dispatch.
C20_AwaitedFailuresPropagate ==
    \A i \in Procs :
        Dispatching(proc[i])
        => /\ (proc[i].out.code = "INTERNAL_ERROR") <=> ~(Awaited \subseteq Written(proc[i]))
           /\ proc[i].out.code # "INTERNAL_ERROR" => proc[i].out.code = proc[i].dec.type
           /\ "lastFeedTime" \in Written(proc[i]) => feeder.lastFeedTime = proc[i].ts
           /\ Awaited \subseteq Written(proc[i])
                  => /\ Len(feedLog) > 0
                     /\ feedLog[Len(feedLog)] = proc[i].ts

\* a dispatch has returned its record although its history append and its
\* notification failed; the actuator stays requested
C20_Witness ==
    \E i \in Procs :
        /\ Dispatching(proc[i])
        /\ proc[i].out.code = proc[i].dec.type
        /\ {"history_failed", "notify_failed"} \subseteq Written(proc[i])
        /\ feeder.status = 1
        /\ feeder.lastFeedTime = proc[i].ts
        /\ feeder.history = proc[i].snap.history

(***************************************************************************)
(* Life of a stored reservation                                            *)
(***************************************************************************)
\* the stored queue holds the reservation created at createdAt
Stored(reservations, createdAt) ==
    \E k \in 1..Len(reservations) : reservations[k].createdAt = createdAt

\* an invocation has dispatched the reservation r, or is a Cancel for its
\* identity
DispatchedOrCancelled(r) ==
    \E i \in Procs :
        \/ /\ proc[i].dec.type = "reservation"
           /\ proc[i].dec.sel.createdAt = r.createdAt
           /\ "status" \in {proc[i].wrote[n] : n \in 1..Len(proc[i].wrote)}
        \/ /\ proc[i].kind = "cancel"
           /\ sameIdentity(r, proc[i].req)

\* C21: a stored reservation leaves the queue only through its own dispatch or
\* a Cancel for its identity: a step that removes a reservation is the write
\* of an invocation that dispatched it or of a Cancel that names it.
C21_RemovedOnlyByDispatchOrCancel ==
    [][\A k \in 1..Len(feeder.reservations) :
           ~Stored(feeder'.reservations, feeder.reservations[k].createdAt)
           => DispatchedOrCancelled(feeder.reservations[k])]_vars

(***************************************************************************)
(* SpecLimit: the queue at its limit.  The store holds 19 or 20            *)
(* reservations made while the feed of T0 - TickStep was cooling down for  *)
(* one minute.  Enqueue and Cancel requests, timer updates and periodic    *)
(* checks overlap in two request slots, each reading the store and         *)
(* writing the whole queue back; the clock advances once.                  *)
(***************************************************************************)
NearFullQueue == SubSeq(FullQueue, 1, MaxReservations - 1)

LimitTimerRequests ==
    { [NoReq EXCEPT !.hour = 0, !.minute = 2, !.noFeedDay = Null] }

InitLimit ==
    /\ feeder \in { Feeder(T0 - TickStep, 1, Null, Null, q) :
                       q \in {NearFullQueue, FullQueue} }
    /\ InitRest

LimitOps(i) ==
    \/ \E req \in ConcRequesters : CreateRead(i, req)
    \/ CancelRead(i, Ann)
    \/ \E req \in LimitTimerRequests : TimerRead(i, req)
    \/ TimerWrite(i)
    \/ CronRead(i)
    \/ ReservationsSet(i)
    \/ Dispatcher(i)

\* the clock advances once: the oldest reservation becomes ready
LimitTick == clock < T0 + TickStep /\ Tick

NextLimit ==
    \/ LimitTick \/ ActuatorDone \/ Detached
    \/ \E i \in Procs : LimitOps(i)

SpecLimit == InitLimit /\ [][NextLimit]_vars

\* C22: the stored queue never holds more than 20 reservations, and an
\* Enqueue by a new identity that reads 20 or more (outside the fasting day)
\* is rejected with QUEUE_FULL and writes nothing.
C22_QueueAtMostTwenty ==
    /\ Len(feeder.reservations) <= MaxReservations
    /\ \A i \in Procs :
           (/\ proc[i].kind = "create" /\ proc[i].snap # NoSnap
            /\ Len(proc[i].snap.reservations) >= MaxReservations
            /\ findIndex(proc[i].snap.reservations, proc[i].req) = 0
            /\ ~isFastingDay(proc[i].snap.timer.noFeedDay, proc[i].now))
           => /\ proc[i].out.code = "QUEUE_FULL"
              /\ proc[i].pc = "done"
              /\ proc[i].wrote = <<>>
              /\ proc[i].pending = <<>>

\* two Enqueue requests of new identities overlapped on a queue of 19: the
\* one stored last is the 20th, and a later Enqueue of the other identity
\* reads 20 entries and is rejected
C22_Witness ==
    /\ Len(feeder.reservations) = MaxReservations
    /\ \E i, j \in Procs :
           /\ i # j
           /\ proc[i].kind = "create" /\ proc[i].out.code = "QUEUE_FULL"
           /\ proc[j].kind = "create" /\ proc[j].out.code = "CREATED"
           /\ proc[j].pc = "done"
           /\ proc[j].out.position = MaxReservations
           /\ Len(proc[j].snap.reservations) = MaxReservations - 1

(***************************************************************************)
(* The feeding history (triggerFeed, feeder.js:172-194).                   *)
(***************************************************************************)
\* the invocation of slot i has dispatched and its detached history append
\* has written or has thrown
HistoryAppendOver(i) ==
    /\ "status" \in Written(proc[i])
    /\ {"history", "history_failed"} \cap Written(proc[i]) # {}

Recorded(history, ts) ==
    \E k \in 1..Len(history) : history[k].timestamp = ts

\* C23: the history holds at most 20 records, most recent first, and holds a
\* record for every successful dispatch whose history append is over.
C23_HistoryRecordsDispatches ==
    /\ Len(feeder.history) <= HistoryLimit
    /\ \A k \in 1..(Len(feeder.history) - 1) :
           feeder.history[k].timestamp >= feeder.history[k + 1].timestamp
    /\ \A i \in Procs :
           HistoryAppendOver(i) => Recorded(feeder.history, proc[i].ts)

(***************************************************************************)
(* SpecRace: two invocations of the periodic check and of the operator     *)
(* feed in flight at once.  Each reads system/feeder, decides on its       *)
(* snapshot and then writes lastFeedTime; nothing makes the read and the   *)
(* write one atomic step.  The cooldown is one minute and has elapsed at   *)
(* T0; the queue is empty or holds one ready reservation.                  *)
(***************************************************************************)
InitRace ==
    /\ feeder \in { Feeder(T0 - 2 * TickStep, 1, Null, 0, q) :
                        q \in {<<>>, <<Reservation(Ann, T0 - TickStep, T0)>>} }
    /\ InitRest

\* the clock advances once, by less than the cooldown
RaceTick == clock < T0 + TickStep /\ Tick

RaceOps(i) ==
    \/ CronRead(i)
    \/ ManualStart(i) \/ ManualRead(i)
    \/ Dispatcher(i)

NextRace == RaceTick \/ ActuatorDone \/ Detached \/ \E i \in Procs : RaceOps(i)

SpecRace == InitRace /\ [][NextRace]_vars

Dispatched(p) == "status" \in Written(p)

\* C24: the guards of a dispatching invocation are evaluated on its own
\* snapshot only: every invocation that dispatches read status = 0 and a
\* lastFeedTime whose cooldown had elapsed when it checked, whatever has been
\* written to the store since.  Two invocations that read the same stored
\* lastFeedTime therefore both dispatch (C24_Witness).
C24_GuardsPassOnSnapshot ==
    \A i \in Procs :
        Dispatched(proc[i])
        => /\ proc[i].snap.status = 0
           /\ proc[i].readAt >= proc[i].snap.lastFeedTime + cooldownOf(proc[i].snap)

\* both invocations have passed the guards on the same stored lastFeedTime
\* and both have dispatched, less than one cooldown apart
C24_Witness ==
    /\ Len(feedLog) = 2
    /\ feedLog[2] - feedLog[1] < cooldownOf(feeder)
    /\ \E i, j \in Procs :
           /\ i # j
           /\ Dispatched(proc[i]) /\ Dispatched(proc[j])
           /\ proc[i].snap.lastFeedTime = proc[j].snap.lastFeedTime
           /\ cooldownOf(proc[i].snap) > 0
           /\ Max(proc[i].readAt - proc[j].readAt, proc[j].readAt - proc[i].readAt) < cooldownOf(proc[i].snap)
           /\ Max(proc[i].ts - proc[j].ts, proc[j].ts - proc[i].ts) < cooldownOf(proc[i].snap)

(***************************************************************************)
(* The read of system/feeder loses the race against the route's timer      *)
(* (withTimeout: Promise.race of the read and a setTimeout that rejects    *)
(* with 'firebase_timeout').                                               *)
(***************************************************************************)
\* mutant: the catch of the read does not return; executeCron goes on to the
\* unattended feed
CronReadTimeout_FallsThrough(i) ==
    /\ Free(i)
    /\ nreq' = nreq + 1
    /\ proc' = [proc EXCEPT ![i] =
           [Decided("cron", NoReq, NoSnap, Decision("timer", "", NoResv), clock, clock)
               EXCEPT !.out = [NoOut EXCEPT !.code = "firebase_timeout"]]]
    /\ UNCHANGED <<clock, feeder, device, tasks, feedLog, cf, firebase>>

\* executeCron, Step 3: no answer within 5 seconds; the check returns
\* { error: 'firebase_timeout', type: 'none' }
CronReadTimeout(i) ==
    /\ Free(i)
    /\ nreq' = nreq + 1
    /\ proc' = [proc EXCEPT ![i] =
           [IdleProc EXCEPT !.pc = "done", !.kind = "cron", !.now = clock,
                            !.out = [NoOut EXCEPT !.code = "firebase_timeout"]]]
    /\ UNCHANGED <<clock, feeder, device, tasks, feedLog, cf, firebase>>

\* the operator feed with the guarded read: no answer within 8 seconds; the
\* route answers TIMEOUT (504)
ManualReadTimeout(i) ==
    /\ proc[i].pc = "read" /\ proc[i].kind = "manual"
    /\ proc' = [proc EXCEPT ![i] = Answer(proc[i], "TIMEOUT")]
    /\ UNCHANGED <<clock, feeder, device, tasks, nreq, feedLog, cf, firebase>>

\* the cancel route: no answer within 8 seconds; the route answers TIMEOUT (504)
CancelReadTimeout(i, req) ==
    /\ Free(i)
    /\ nreq' = nreq + 1
    /\ proc' = [proc EXCEPT ![i] =
           [IdleProc EXCEPT !.pc = "done", !.kind = "cancel", !.req = req,
                            !.now = clock,
                            !.out = [NoOut EXCEPT !.code = "TIMEOUT"]]]
    /\ UNCHANGED <<clock, feeder, device, tasks, feedLog, cf, firebase>>

(***************************************************************************)
(* SpecTimeout: periodic checks, operator feeds, Enqueue and Cancel, one   *)
(* invocation after the other, whose read of system/feeder answers or      *)
(* times out.  The cooldown of one minute has elapsed at T0.               *)
(***************************************************************************)
InitTimeout ==
    /\ feeder \in { Feeder(T0 - 2 * TickStep, 1, Null, 0, q) :
                        q \in {<<>>, <<Queued(Ann, 1, 1)>>} }
    /\ InitRest

TimeoutOps(i) ==
    \/ CronRead(i) \/ CronReadTimeout(i)
    \/ ManualStart(i) \/ ManualRead(i) \/ ManualReadTimeout(i)
    \/ \E req \in ConcRequesters :
           \/ CreateRead(i, req) \/ CreateReadTimeout(i, req)
           \/ CancelRead(i, req) \/ CancelReadTimeout(i, req)
    \/ ReservationsSet(i)
    \/ WriteTimeout(i)
    \/ Dispatcher(i)

NextTimeout == Env \/ Detached \/ TimeoutOps("p1")

SpecTimeout == InitTimeout /\ [][NextTimeout]_vars

TimeoutCodes == {"firebase_timeout", "TIMEOUT"}

\* the invocation has answered without a snapshot of system/feeder
ReadTimedOut(p) ==
    p.pc = "done" /\ p.kind \in {"cron", "manual", "create", "cancel"} /\ p.snap = NoSnap

\* C25: an invocation whose read of system/feeder timed out has answered with
\* the timeout outcome (firebase_timeout for the periodic check, TIMEOUT for
\* the routes), has taken no decision to feed, has written nothing to the
\* store and has left no write or detached work behind.
C25_ReadTimeoutWritesNothing ==
    \A i \in Procs :
        (proc[i].snap = NoSnap /\ proc[i].out.code \in TimeoutCodes)
        => /\ proc[i].pc = "done"
           /\ proc[i].out.code = (IF proc[i].kind = "cron" THEN "firebase_timeout"
                                  ELSE "TIMEOUT")
           /\ proc[i].dec = NoDecision
           /\ proc[i].wrote = <<>>
           /\ proc[i].pending = <<>>
           /\ proc[i].par = {}
           /\ \A t \in tasks : t.owner # i

\* a periodic check has timed out on its read although the cooldown has
\* elapsed, the queue holds a ready reservation and the flag is clear: the
\* reservation is still stored and nothing was requested from the actuator
C25_Witness ==
    \E i \in Procs :
        /\ ReadTimedOut(proc[i]) /\ proc[i].kind = "cron"
        /\ proc[i].out.code = "firebase_timeout"
        /\ feeder.status = 0 /\ feedLog = <<>>
        /\ Len(readyReservations(validReservations(feeder.reservations), clock)) > 0
        /\ canFeed(feeder.lastFeedTime, cooldownOf(feeder), clock)

(***************************************************************************)
(* Cancel (DELETE /api/reservations/cancel)                                *)
(***************************************************************************)
\* C26: a Cancel whose identity matches no reservation of the queue it read
\* answers RESERVATION_NOT_FOUND and writes nothing: no write is pending,
\* done or left in flight.
C26_CancelNotFoundWritesNothing ==
    \A i \in Procs :
        (/\ proc[i].kind = "cancel" /\ proc[i].snap # NoSnap
         /\ findIndex(validReservations(proc[i].snap.reservations), proc[i].req) = 0)
        => /\ proc[i].pc = "done"
           /\ proc[i].out.code = "RESERVATION_NOT_FOUND"
           /\ proc[i].wrote = <<>>
           /\ proc[i].pending = <<>>
           /\ \A t \in tasks : t.owner # i

\* a Cancel by an identity that is not queued has failed on a non-empty queue,
\* which is stored as it was read
C26_Witness ==
    \E i \in Procs :
        /\ proc[i].kind = "cancel" /\ proc[i].pc = "done"
        /\ proc[i].out.code = "RESERVATION_NOT_FOUND"
        /\ proc[i].snap # NoSnap
        /\ Len(proc[i].snap.reservations) > 0
        /\ feeder.reservations = proc[i].snap.reservations

(***************************************************************************)
(* SpecCancel: Cancel requests that carry a deviceId and an e-mail address *)
(* on a queue that holds one reservation made under the deviceId (Bob) and *)
(* another made under the address (Cy), in either order of arrival.  The   *)
(* feed of T0 - TickStep is cooling down for one minute.                   *)
(***************************************************************************)
CancelRequesters == {BobCy, Ann}

InitCancel ==
    /\ feeder \in { Feeder(T0 - TickStep, 1, Null, Null, q) :
                        q \in { <<Queued(Bob, 1, 2), Queued(Cy, 2, 2)>>,
                                <<Queued(Cy, 1, 2), Queued(Bob, 2, 2)>> } }
    /\ InitRest

CancelOps(i) ==
    \/ \E req \in CancelRequesters : CancelRead(i, req) \/ CancelReadTimeout(i, req)
    \/ ReservationsSet(i)
    \/ WriteTimeout(i)

NextCancel == Tick \/ LateWrite \/ CancelOps("p1")

SpecCancel == InitCancel /\ [][NextCancel]_vars

\* the reservations of rs that match the deviceId, and those that match the
\* e-mail address only
ByDevice(rs, req) ==
    {k \in 1..Len(rs) : req.deviceId # "" /\ rs[k].deviceId = req.deviceId}

ByEmailOnly(rs, req) ==
    {k \in 1..Len(rs) : /\ req.userEmail # "" /\ rs[k].userEmail = req.userEmail
                        /\ rs[k].deviceId # req.deviceId}

\* C30: when a Cancel matches one stored reservation by its deviceId and a
\* different one by its e-mail address, the queue it writes has lost the
\* reservation of the deviceId and still holds the one of the address.
C30_CancelPrefersDeviceId ==
    \A i \in Procs :
        LET rs == validReservations(proc[i].snap.reservations)
        IN  (/\ proc[i].kind = "cancel" /\ proc[i].snap # NoSnap
             /\ proc[i].out.code = "CANCELLED"
             /\ ByDevice(rs, proc[i].req) # {}
             /\ ByEmailOnly(rs, proc[i].req) # {})
            => /\ \A k \in ByDevice(rs, proc[i].req) :
                      ~Stored(proc[i].pending, rs[k].createdAt)
               /\ \A k \in ByEmailOnly(rs, proc[i].req) :
                      Stored(proc[i].pending, rs[k].createdAt)

(***************************************************************************)
(* SpecRecompute: the three writers that re-anchor the queue (reservation  *)
(* dispatch, Cancel, timer update), one invocation after the other, on a   *)
(* queue of three.  lastFeedTime is absent, one clock step old, or the     *)
(* Arduino's millis().                                                     *)
(***************************************************************************)
InitRecompute ==
    /\ feeder \in { Feeder(l, 1, Null, Null,
                           <<Queued(Ann, 1, 3), Queued(Bob, 2, 3), Queued(Cy, 3, 3)>>) :
                        l \in {0, T0 - TickStep, ArduinoMillis} }
    /\ InitRest

RecomputeOps(i) ==
    \/ \E req \in Requesters : CancelRead(i, req)
    \/ \E req \in TimerRequests : TimerRead(i, req)
    \/ TimerWrite(i)
    \/ CronRead(i)
    \/ ReservationsSet(i)
    \/ Dispatcher(i)

NextRecompute == Env \/ Detached \/ RecomputeOps("p1")

SpecRecompute == InitRecompute /\ [][NextRecompute]_vars

\* s_1 = max(now, anchor), s_(k+1) = max(now, s_k + cooldown)
RECURSIVE Schedule(_, _, _, _)
Schedule(k, anchor, cooldownMs, now) ==
    IF k = 1 THEN Max(now, anchor)
    ELSE Max(now, Schedule(k - 1, anchor, cooldownMs, now) + cooldownMs)

\* the stored lastFeedTime as an anchor: a corrupt value is replaced by now
AnchorBase(lastFeedTime, now) ==
    IF Corrupt(lastFeedTime) THEN now ELSE OrZero(lastFeedTime)

\* the invocation holds a recomputed queue: the cooldown and the anchor the
\* recomputation is to use, and the reservations it is to keep
Recomputing(p) ==
    /\ p.snap # NoSnap /\ p.pending # <<>>
    /\ \/ p.kind = "cron" /\ p.dec.type = "reservation"
       \/ p.kind = "cancel" /\ p.out.code = "CANCELLED"
       \/ p.kind = "timer"

RecomputeCooldown(p) ==
    IF p.kind = "timer" THEN calculateCooldownMs(p.req.hour, p.req.minute)
    ELSE cooldownOf(p.snap)

RecomputeAnchor(p) ==
    IF p.kind = "cron" THEN p.ts + RecomputeCooldown(p)
    ELSE AnchorBase(p.snap.lastFeedTime, p.at) + RecomputeCooldown(p)

\* C28: a recomputed queue carries, in stored order, s_1 = max(now, anchor) and
\* s_(k+1) = max(now, s_k + cooldown), the anchor being the dispatch instant
\* plus the cooldown after a reservation dispatch, lastFeedTime plus the
\* cooldown after a Cancel and lastFeedTime plus the new cooldown after a timer
\* update, a corrupt lastFeedTime being replaced by now.
C28_RecomputeFromAnchor ==
    \A i \in Procs :
        Recomputing(proc[i])
        => \A k \in 1..Len(proc[i].pending) :
               proc[i].pending[k].scheduledTime =
                   Schedule(k, RecomputeAnchor(proc[i]), RecomputeCooldown(proc[i]),
                            proc[i].at)

(***************************************************************************)
(* Enqueue and the check of the computed schedule (SpecQueue)              *)
(***************************************************************************)
\* C29: an Enqueue by an identity that is not queued, on a day that is not the
\* fasting day, reading fewer than 20 reservations, is not answered
\* INVALID_SCHEDULE.
C29_EnqueueNeverInvalidSchedule ==
    \A i \in Procs :
        (/\ proc[i].kind = "create" /\ proc[i].snap # NoSnap
         /\ ~isFastingDay(proc[i].snap.timer.noFeedDay, proc[i].now)
         /\ findIndex(validReservations(proc[i].snap.reservations), proc[i].req) = 0
         /\ Len(validReservations(proc[i].snap.reservations)) < MaxReservations)
        => proc[i].out.code # "INVALID_SCHEDULE"

(***************************************************************************)
(* The queue write of a reservation dispatch (detached in executeCron,     *)
(* awaited in POST /api/cron/execute)                                      *)
(***************************************************************************)
(***************************************************************************)
(* SpecRemove: periodic checks in one request slot and Enqueue by Cy in    *)
(* the other, on a queue of two whose first reservation is ready one clock *)
(* step after T0.  Every createdAt is distinct.                            *)
(***************************************************************************)
InitRemove ==
    /\ feeder = Feeder(T0 - TickStep, 1, Null, Null,
                       <<Queued(Ann, 1, 2), Queued(Bob, 2, 2)>>)
    /\ InitRest

RemoveOps ==
    \/ CronRead("p1") \/ Dispatcher("p1")
    \/ CreateRead("p2", Cy) \/ ReservationsSet("p2")

NextRemove == Env \/ Detached \/ RemoveOps

SpecRemove == InitRemove /\ [][NextRemove]_vars

\* the write of the recomputed queue of slot i's reservation dispatch lands in
\* this step
DispatchWriteLands(i) ==
    /\ proc[i].dec.type = "reservation"
    /\ proc'[i].wrote = Append(proc[i].wrote, "reservations")

\* C27: the queue write of a reservation dispatch removes exactly the
\* dispatched reservation: after it the reservation is not stored, every other
\* reservation stored before it is still stored, and the queue is shorter by
\* exactly one.
C27_DispatchRemovesExactlyOne ==
    [][\A i \in Procs :
           DispatchWriteLands(i)
           => /\ ~Stored(feeder'.reservations, proc[i].dec.sel.createdAt)
              /\ \A k \in 1..Len(feeder.reservations) :
                     feeder.reservations[k].createdAt # proc[i].dec.sel.createdAt
                     => Stored(feeder'.reservations, feeder.reservations[k].createdAt)
              /\ Len(feeder'.reservations) = Len(feeder.reservations) - 1]_vars

(***************************************************************************)
(* The operator feed and the guards of the periodic check (Spec)           *)
(***************************************************************************)
GuardReasons == {"fasting_day", "device_offline", "already_feeding", "cooldown_active"}

\* the periodic check, in either of its routes, rejects on fd at the instant now
\* with one of the four guards
PeriodicCheckRejects(fd, now) ==
    \/ executeCronDecision(fd, EmptyDevice, now).reason \in GuardReasons
    \/ cronExecuteDecision(fd, device, now).reason \in GuardReasons

C32_ZeroDelayFeedsAtCooldownEnd ==
    \A i \in Procs :
        (/\ proc[i].kind \in {"cron", "exec"} /\ proc[i].snap # NoSnap
         /\ proc[i].snap.priority.autoFeedDelayMinutes = 0
         /\ Len(validReservations(proc[i].snap.reservations)) = 0
         /\ proc[i].snap.status = 0
         /\ proc[i].snap.lastFeedTime >= MIN_VALID_EPOCH
         /\ proc[i].readAt >= proc[i].snap.lastFeedTime + cooldownOf(proc[i].snap)
         /\ ~isFastingDay(proc[i].snap.timer.noFeedDay, proc[i].readAt)
         /\ isDeviceOnline(device.lastSeen, device, proc[i].readAt))
        => proc[i].dec.type = "timer"

(***************************************************************************)
(* SpecLive: the scheduler invokes executeCron at least once in every      *)
(* clock step and without end; the device reports itself and clears the    *)
(* request flag.  The queue holds two reservations, the cooldown is one     *)
(* minute, Wednesday is or is not the fasting day (Thursday begins two     *)
(* clock steps after T0), and lastFeedTime is one clock step old or the    *)
(* Arduino's millis().  nreq counts the checks of the current clock step.  *)
(* Time passes whatever the handlers do (strong fairness of the clock: it  *)
(* is enabled between two checks only); every started step is weakly fair. *)
(***************************************************************************)
LiveQueue == <<Queued(Ann, 1, 2), Queued(Bob, 2, 2)>>

InitLive ==
    /\ feeder \in { Feeder(l, 1, d, Null, LiveQueue) :
                        l \in {T0 - TickStep, ArduinoMillis}, d \in {Null, 3} }
    /\ InitRest

\* the clock advances when a check of this clock step has run to its end
LiveTick ==
    /\ clock < MaxClock
    /\ nreq >= 1
    /\ \A i \in Procs : proc[i].pc = "idle"
    /\ clock' = clock + TickStep
    /\ nreq' = 0
    /\ UNCHANGED <<feeder, device, proc, tasks, feedLog, cf, firebase>>

\* the invocation has answered and its detached work has run
LiveRearm(i) ==
    /\ proc[i].pc = "done"
    /\ \A t \in tasks : t.owner # i
    /\ proc' = [proc EXCEPT ![i] = IdleProc]
    /\ nreq' = 1
    /\ UNCHANGED <<clock, feeder, device, tasks, feedLog, cf, firebase>>

NextLive ==
    \/ LiveTick \/ ActuatorDone \/ Heartbeat \/ Detached
    \/ PeriodicCron("p1") \/ LiveRearm("p1")
    \/ Dispatcher("p1")

SpecLive ==
    /\ InitLive /\ [][NextLive]_vars
    /\ SF_vars(LiveTick) /\ WF_vars(ActuatorDone) /\ WF_vars(Heartbeat)
    /\ WF_vars(Detached)
    /\ WF_vars(PeriodicCron("p1")) /\ WF_vars(LiveRearm("p1"))
    /\ WF_vars(Dispatcher("p1"))

\* C33: with the periodic check invoked again and again, the device online,
\* the fasting day ending and the request flag cleared after each feed, every
\* reservation of the queue is eventually dispatched: the queue is eventually
\* empty and both reservations are in the feed history.
C33_ReservationsEventuallyDispatched ==
    <>(/\ feeder.reservations = <<>>
       /\ \A k \in 1..Len(LiveQueue) :
              \E n \in 1..Len(feeder.history) :
                  /\ feeder.history[n].type = "reservation"
                  /\ feeder.history[n].user = LiveQueue[k].user)

(***************************************************************************)
(* Acknowledged reservations under overlapping writers (SpecConc)          *)
(***************************************************************************)
\* the Enqueue of slot j has stored its reservation and answered CREATED
Acknowledged(j) ==
    /\ proc[j].kind = "create" /\ proc[j].pc = "done"
    /\ proc[j].out.code = "CREATED"
    /\ "reservations" \in Written(proc[j])

Holds(reservations, r) ==
    \E k \in 1..Len(reservations) :
        reservations[k].createdAt = r.createdAt /\ reservations[k].user = r.user

\* C34: a reservation that Enqueue has acknowledged as created leaves the
\* stored queue only by its dispatch or its Cancel, whatever other Enqueue,
\* Cancel, timer update or dispatch overlaps with it.
C34_AcknowledgedStaysStored ==
    [][\A j \in Procs :
           (/\ Acknowledged(j)
            /\ Holds(feeder.reservations, proc[j].out.resv)
            /\ ~Holds(feeder'.reservations, proc[j].out.resv))
           => DispatchedOrCancelled(proc[j].out.resv)]_vars

(***************************************************************************)
(* The timeout of the dispatch step: withTimeout(triggerFeed(..), ms) is a *)
(* Promise.race.  When the timer wins, the route answers; triggerFeed is   *)
(* not cancelled and runs on to its end, the route's code after the await  *)
(* does not run.                                                           *)
(***************************************************************************)
\* the timer of executeCron (7 s) or of the guarded operator feed (10 s) wins
\* while triggerFeed awaits one of its writes
FeedTimeout(i) ==
    /\ proc[i].pc \in {"tf_lastFeedTime", "tf_parallel"}
    /\ proc[i].kind \in {"cron", "manual"}
    /\ proc[i].out.code = ""
    /\ proc' = [proc EXCEPT ![i].out =
           [NoOut EXCEPT !.code = IF proc[i].kind = "cron" THEN "firebase_timeout"
                                  ELSE "TIMEOUT"]]
    /\ UNCHANGED <<clock, feeder, device, tasks, nreq, feedLog, cf, firebase>>

\* triggerFeed returns to nobody: its history append is scheduled, the
\* removal of the reservation and the notification of the route are skipped
FeedReturnAbandoned(i) ==
    /\ proc[i].pc = "tf_parallel" /\ proc[i].par = {}
    /\ proc[i].out.code # ""
    /\ tasks' = tasks \cup {HistoryTask(i)}
    /\ proc' = [proc EXCEPT ![i].pc = "done"]
    /\ UNCHANGED <<clock, feeder, device, nreq, feedLog, cf, firebase>>

(***************************************************************************)
(* SpecFeedTimeout: periodic checks and operator feeds, one invocation     *)
(* after the other, whose dispatch step may time out.  The cooldown of one *)
(* minute has elapsed at T0; the queue is empty or holds a reservation     *)
(* that is ready one clock step after T0.                                  *)
(***************************************************************************)
FeedTimeoutOps(i) ==
    \/ CronRead(i)
    \/ ManualStart(i) \/ ManualRead(i)
    \/ SetLastFeedTime(i) \/ SetLastFeed(i) \/ SetStatus(i)
    \/ proc[i].out.code = "" /\ FeedReturn(i)
    \/ FeedTimeout(i) \/ FeedReturnAbandoned(i)

NextFeedTimeout == Env \/ Detached \/ FeedTimeoutOps("p1")

SpecFeedTimeout == InitTimeout /\ [][NextFeedTimeout]_vars

\* C35: a periodic check or operator feed that has answered with the timeout
\* outcome of its dispatch step has not written lastFeedTime or status = 1,
\* neither before nor after its answer.
C35_DispatchTimeoutWritesNothing ==
    \A i \in Procs :
        (/\ proc[i].kind \in {"cron", "manual"} /\ proc[i].snap # NoSnap
         /\ proc[i].out.code \in TimeoutCodes)
        => /\ "lastFeedTime" \notin Written(proc[i])
           /\ "status" \notin Written(proc[i])

NoFeedOutcomes ==
    {"fasting_day", "device_offline", "already_feeding", "cooldown_active",
     "no_feed_needed", "FASTING_DAY", "DEVICE_OFFLINE", "ALREADY_FEEDING",
     "COOLDOWN_ACTIVE", "RESERVATIONS_EXIST"}

\* C36: a periodic check or operator feed that has answered with a rejection
\* or no-op outcome has written nothing to the store and has left no write
\* behind it.
C36_RejectionWritesNothing ==
    \A i \in Procs :
        (/\ proc[i].kind \in {"cron", "exec", "manual", "legacy"}
         /\ proc[i].pc = "done" /\ proc[i].out.code \in NoFeedOutcomes)
        => /\ proc[i].wrote = <<>>
           /\ \A t \in tasks : t.owner # i

(***************************************************************************)
(* What the writers that re-anchor the queue leave alone (SpecRecompute)   *)
(***************************************************************************)
Unscheduled(r) == [r EXCEPT !.scheduledTime = 0]

\* kept is rest with entries left out and nothing but scheduledTime altered:
\* same entries, same order, each at most once
KeptFrom(kept, rest) ==
    \E f \in [1..Len(kept) -> 1..Len(rest)] :
        /\ \A k \in 1..Len(kept) : Unscheduled(kept[k]) = Unscheduled(rest[f[k]])
        /\ \A k, l \in 1..Len(kept) : k < l => f[k] < f[l]

\* C37: every write of the queue by a Cancel, a reservation dispatch or a
\* timer update stores reservations that were stored before it, in the same
\* relative order, each at most once, with user, deviceId, userEmail and
\* createdAt unchanged: only scheduledTime differs.
C37_OnlyScheduleAltered ==
    [][feeder'.reservations # feeder.reservations
           => KeptFrom(feeder'.reservations, feeder.reservations)]_vars

C37_Witness ==
    \E i \in Procs :
        /\ proc[i].kind \in {"cancel", "timer"} /\ proc[i].pc = "done"
        /\ "reservations" \in Written(proc[i])
        /\ feeder.reservations = proc[i].pending
        /\ Len(feeder.reservations) >= 2
        /\ \E k \in 1..Len(feeder.reservations) :
               \E n \in 1..Len(proc[i].snap.reservations) :
                   /\ proc[i].snap.reservations[n].createdAt =
                          feeder.reservations[k].createdAt
                   /\ proc[i].snap.reservations[n].scheduledTime #
                          feeder.reservations[k].scheduledTime

(***************************************************************************)
(* What a timer update leaves alone (SpecRecompute)                        *)
(***************************************************************************)
\* a write of the timer update i lands in this step
TimerUpdateWrites(i) ==
    /\ proc[i].kind = "timer" /\ proc[i].pc \in {"timer_write", "resv_write"}
    /\ proc'[i].pc # proc[i].pc

\* C38: a write of a timer update leaves lastFeedTime, status and the history
\* as they are, and when the request carried no noFeedDay the stored noFeedDay
\* as well.
C38_TimerUpdateKeepsFastingDay ==
    [][\A i \in Procs :
           TimerUpdateWrites(i)
           => /\ feeder'.lastFeedTime = feeder.lastFeedTime
              /\ feeder'.status = feeder.status
              /\ feeder'.history = feeder.history
              /\ (proc[i].req.noFeedDay = Null
                  => feeder'.timer.noFeedDay = feeder.timer.noFeedDay)]_vars

(***************************************************************************)
(* sendTelegram (src/lib/services/telegram.js).  Each attempt is a fetch   *)
(* with a 5 s abort timer; what the attempt meets is an input:             *)
(*   ok                the message is sent and its id returned             *)
(*   invalid_response  status 2xx without result.message_id                *)
(*   http_4xx          a status that is neither 429 nor >= 500             *)
(*   http_5xx          429 or >= 500                                       *)
(*   abort             the abort timer fires (AbortError)                  *)
(*   error             fetch rejects with any other error                  *)
(***************************************************************************)
AttemptOutcomes == {"ok", "invalid_response", "http_4xx", "http_5xx", "abort", "error"}

\* export async function sendTelegram(message, db, retries = 2)
TelegramRetries == 2

TelegramResult(success, error, attempts) ==
    [success |-> success, error |-> error, attempts |-> attempts, threw |-> FALSE]

\* for (let attempt = 0; attempt <= retries; attempt++) { try { try {..} catch
\* (AbortError) {..} } catch {..} }: one pass of the loop and what follows it
RECURSIVE sendAttempt(_, _)
sendAttempt(outcomes, attempt) ==
    LET o == outcomes[attempt + 1]
    IN  IF attempt > TelegramRetries THEN TelegramResult(FALSE, "UNKNOWN_ERROR", attempt)
        ELSE IF o = "ok" THEN TelegramResult(TRUE, "", attempt + 1)
        ELSE IF o = "invalid_response"
        THEN TelegramResult(FALSE, "INVALID_RESPONSE", attempt + 1)
        ELSE IF o = "http_4xx" THEN TelegramResult(FALSE, "HTTP", attempt + 1)
        ELSE IF attempt < TelegramRetries THEN sendAttempt(outcomes, attempt + 1)
        ELSE TelegramResult(FALSE, IF o = "http_5xx" THEN "HTTP"
                                   ELSE IF o = "abort" THEN "TIMEOUT" ELSE "error",
                            attempt + 1)

\* mutant: the error of the final attempt is thrown to the caller
sendTelegram_Rethrows(credentials, outcomes) ==
    LET r == sendAttempt(outcomes, 0)
    IN  IF ~credentials THEN TelegramResult(FALSE, "MISSING_CREDENTIALS", 0)
        ELSE IF r.error = "error" THEN [r EXCEPT !.threw = TRUE]
        ELSE r

\* credentials: TELEGRAM_BOT_TOKEN and TELEGRAM_CHAT_ID are both set
sendTelegram(credentials, outcomes) ==
    IF ~credentials THEN TelegramResult(FALSE, "MISSING_CREDENTIALS", 0)
    ELSE sendAttempt(outcomes, 0)

AttemptSeqs == [1..(TelegramRetries + 1) -> AttemptOutcomes]

RECURSIVE Repeated(_, _)
Repeated(label, n) == IF n = 0 THEN <<>> ELSE <<label>> \o Repeated(label, n - 1)

NotifyLabels == {"telegram_attempt", "notify", "notify_failed", "notify_threw"}

\* the invocation has made its last store write and is to announce its
\* outcome: sendReservationExecutedMessage / sendAutoFeedMessage /
\* sendFeedExecutedMessage / sendReservationCreatedMessage (each a try/catch
\* around await sendTelegram) or sendTelegram(..).catch(..) of the cancel route
NotifyDue(i) ==
    /\ proc[i].pc = "done"
    /\ proc[i].out.code \in {"reservation", "timer", "manual", "CREATED", "CANCELLED"}
    /\ Written(proc[i]) \cap NotifyLabels = {}

\* the send: its attempts and its end are logged with the invocation; a throw
\* is caught and logged by the helper or by the .catch of the call
SendTelegram(i, credentials, outcomes) ==
    LET r == sendTelegram(credentials, outcomes)
    IN  /\ NotifyDue(i)
        /\ proc' = [proc EXCEPT ![i].wrote =
               @ \o Repeated("telegram_attempt", r.attempts)
                 \o <<IF r.threw THEN "notify_threw"
                      ELSE IF r.success THEN "notify" ELSE "notify_failed">>]
        /\ UNCHANGED <<clock, feeder, device, tasks, nreq, feedLog, cf, firebase>>

(***************************************************************************)
(* SpecNotify: periodic checks, operator feeds, Enqueue and Cancel, one    *)
(* invocation after the other, each announcing its outcome by sendTelegram *)
(* over a channel whose attempts succeed or fail in every way.  The        *)
(* cooldown of one minute has elapsed at T0.                               *)
(***************************************************************************)
NotifyOps(i) ==
    \/ CronRead(i)
    \/ ManualStart(i) \/ ManualRead(i)
    \/ \E req \in ConcRequesters : CreateRead(i, req) \/ CancelRead(i, req)
    \/ ReservationsSet(i)
    \/ Dispatcher(i)
    \/ \E credentials \in BOOLEAN, outcomes \in AttemptSeqs :
           SendTelegram(i, credentials, outcomes)

NextNotify == RaceTick \/ ActuatorDone \/ Detached \/ NotifyOps("p1")

SpecNotify == InitTimeout /\ [][NextNotify]_vars

\* the store writes of the invocation, in their order
StoreWrites(p) == SelectSeq(p.wrote, LAMBDA w : w \notin NotifyLabels)

Attempts(p) == Len(SelectSeq(p.wrote, LAMBDA w : w = "telegram_attempt"))

\* C39: a notification send, whatever its attempts meet, makes at most three
\* attempts and ends without throwing, and it changes nothing of the
\* operation it announces: the store, the answer, the store writes made and
\* the detached work are what they were before the send, as after a send that
\* succeeds.
C39_NotificationNeverChangesOutcome ==
    [][\A i \in Procs :
           proc'[i].wrote # proc[i].wrote /\ Written(proc'[i]) \cap NotifyLabels # {}
               /\ Written(proc[i]) \cap NotifyLabels = {}
           => /\ Attempts(proc'[i]) <= 3
              /\ "notify_threw" \notin Written(proc'[i])
              /\ Written(proc'[i]) \cap {"notify", "notify_failed"} # {}
              /\ feeder' = feeder /\ tasks' = tasks
              /\ proc'[i].out = proc[i].out /\ proc'[i].pc = proc[i].pc
              /\ StoreWrites(proc'[i]) = StoreWrites(proc[i])]_vars

\* an Enqueue was acknowledged and stored, and its notification failed after
\* three attempts
C39_Witness ==
    \E i \in Procs :
        /\ proc[i].kind = "create" /\ proc[i].out.code = "CREATED"
        /\ "notify_failed" \in Written(proc[i]) /\ Attempts(proc[i]) = 3
        /\ Holds(feeder.reservations, proc[i].out.resv)

(***************************************************************************)
(* getDatabase (the Firebase Admin SDK service).  The process environment  *)
(* is one of                                                               *)
(*   no_account  FIREBASE_SERVICE_ACCOUNT unset, empty, unparsable or      *)
(*               lacking a field: getDatabase throws before the SDK        *)
(*   bad_key     admin.credential.cert / admin.initializeApp throws        *)
(*   bad_url     FIREBASE_DB_URL is no database URL: initializeApp         *)
(*               registers the app, admin.database() throws                *)
(*   good        both calls succeed                                        *)
(* getDatabase is synchronous: one call is one step.                       *)
(***************************************************************************)
Envs == {"no_account", "bad_key", "bad_url", "good"}

MaxGetDatabaseCalls == 3

\* the catch of getDatabase: initAttempted = true; throw error
InitThrows(f, apps, calls) ==
    [f EXCEPT !.initAttempted = TRUE, !.apps = apps, !.failed = TRUE,
              !.ncalls = @ + 1, !.result = "threw", !.calls = calls]

\* dbInstance = admin.database(); return dbInstance
InitReturns(f, calls) ==
    [f EXCEPT !.initAttempted = (calls # <<"database">>) \/ @, !.apps = 1,
              !.dbInstance = f.ncalls + 1,
              !.ncalls = @ + 1, !.result = "instance", !.calls = calls]

getDatabase(f) ==
    IF f.dbInstance # Null
    THEN [f EXCEPT !.ncalls = @ + 1, !.result = "instance", !.calls = <<>>]
    ELSE IF f.initAttempted /\ f.apps = 0
    THEN [f EXCEPT !.failed = TRUE, !.ncalls = @ + 1,
                   !.result = "threw_previously_failed", !.calls = <<>>]
    ELSE IF f.apps > 0
    THEN IF f.env = "bad_url" THEN InitThrows(f, f.apps, <<"database">>)
         ELSE InitReturns(f, <<"database">>)
    ELSE IF f.env = "no_account" THEN InitThrows(f, 0, <<>>)
    ELSE IF f.env = "bad_key" THEN InitThrows(f, 0, <<"initializeApp">>)
    ELSE IF f.env = "bad_url" THEN InitThrows(f, 1, <<"initializeApp", "database">>)
    ELSE InitReturns(f, <<"initializeApp", "database">>)

\* db = getDatabase() at the head of a route
GetDatabase ==
    /\ firebase.ncalls < MaxGetDatabaseCalls
    /\ firebase' = getDatabase(firebase)
    /\ UNCHANGED <<clock, feeder, device, proc, tasks, nreq, feedLog, cf>>

(***************************************************************************)
(* SpecDb: a process in each environment; its routes call getDatabase and, *)
(* once they hold the instance, the periodic check runs on the store.      *)
(***************************************************************************)
InitDb ==
    /\ feeder \in { Feeder(T0 - 2 * TickStep, 1, Null, 0, q) :
                        q \in {<<>>, <<Queued(Ann, 1, 1)>>} }
    /\ firebase \in { Process(env) : env \in Envs }
    /\ clock = T0
    /\ device = [lastSeen |-> T0, uptime |-> 100, wifi |-> "connected"]
    /\ proc = [i \in Procs |-> IdleProc]
    /\ tasks = {}
    /\ nreq = 0
    /\ feedLog = <<>>
    /\ cf = NoCf

Served(i) == firebase.dbInstance # Null /\ (CronRead(i) \/ Dispatcher(i))

NextDb == GetDatabase \/ RaceTick \/ ActuatorDone \/ Detached \/ Served("p1")

SpecDb == InitDb /\ [][NextDb]_vars

\* C40: a getDatabase call made after a call has failed fails too and calls
\* neither admin.initializeApp nor admin.database; a call made after a call
\* has succeeded returns the instance that call cached, without calling the
\* SDK.
C40_InitOnceThenCached ==
    [][firebase'.ncalls # firebase.ncalls
           => /\ firebase.failed
                 => firebase'.result # "instance" /\ firebase'.calls = <<>>
              /\ firebase.dbInstance # Null
                 => /\ firebase'.result = "instance" /\ firebase'.calls = <<>>
                    /\ firebase'.dbInstance = firebase.dbInstance]_vars

====
